---- MODULE Spec2Model ----
(***************************************************************************)
(* Verification model of the IRIS voice pipeline                           *)
(* (packages/voice-backend/iris_local.py and iris_gui.py).                 *)
(*                                                                         *)
(* The module holds several specifications over one set of variables:      *)
(*   SpecSeg    the utterance segmenter (run_vad_mode.audio_callback,      *)
(*              IrisGUI._vad_loop, IrisGUI._stop_vad_listening)            *)
(*   SpecTurns  the entry points that start a conversational turn          *)
(*              (IrisGUI._process_vad_audio, run_gui_mode.on_ptt_stop,     *)
(*              run_vad_mode.audio_callback)                               *)
(*   SpecMon    the barge-in monitor (IrisLocal._start_vad_monitor,        *)
(*              monitor_loop, _stop_vad_monitor, _check_interrupt)         *)
(*   SpecVoice  IrisLocal.process_voice with its monitor                    *)
(*   SpecPlay   AudioIO.play_interruptible on one sentence of a cycle       *)
(*   SpecActors the capture loop and the monitor with a VAD that may raise  *)
(*   SpecCapture AudioIO: construction and record_until_release             *)
(*   SpecSession the history over a long session: _call_llm and the head of *)
(*              process_voice, cycle after cycle                            *)
(*   SpecCycles cycles run one after another, by process_voice (CLI) or by  *)
(*              IrisGUI._process_vad_audio with _call_llm and speak (GUI)   *)
(* Each specification leaves the variables of the others unchanged.        *)
(***************************************************************************)
EXTENDS Naturals, Integers, Sequences, FiniteSets, TLC

(***************************************************************************)
(* Program constants                                                       *)
(***************************************************************************)
\* samples per captured chunk (blocksize / chunk_samples)
chunk_samples == 512
\* int(silence_duration * sample_rate_in) = int(0.5 * 16000)
silence_threshold == 8000
\* int(min_speech_duration * sample_rate_in) = int(1.0 * 16000)
min_samples == 16000
\* IrisConfig.vad_threshold, in tenths
vad_threshold == 5

(***************************************************************************)
(* Bounds of the model                                                     *)
(***************************************************************************)
\* chunks fed to the segmenter
MaxChunks == 50
\* chunks of silence before the first speech chunk
MaxLead == 2
\* runs of consecutive speech chunks in the input
MaxRuns == 2

\* speech probabilities the VAD may report for a chunk, in tenths
SegProbs == {5, 8}

None == "None"

VARIABLES
    \* ---- segmenter (IrisGUI._vad_loop / run_vad_mode.audio_callback)
    vad_active,          \* IrisGUI._vad_active
    vad_thread_alive,    \* the thread running _vad_loop is alive
    vad_is_speaking,     \* _vad_is_speaking / is_speaking
    vad_audio_buffer,    \* _vad_audio_buffer / audio_buffer: the chunks, by stream position
    silence_samples,     \* silence_samples
    pos,                 \* number of chunks captured so far
    emitted,             \* utterances handed to a processing thread, in order
    \* history of the input, recorded for the claims
    speechTotal,         \* number of chunks so far classified as speech (up to MinChunks)
    firstSpeech,         \* position of the first speech chunk (0: none, or shape broken)
    lastSpeech,          \* position of the last speech chunk (0: none, or shape broken)
    shape,               \* "lead" | "speech" | "tail" | "broken": shape of the input so far
    prevSpeech,          \* the last chunk captured was classified as speech
    runs,                \* number of runs of consecutive speech chunks so far
    silenceRun           \* non-speech chunks read by the loop since its last speech chunk

segVars == <<vad_active, vad_thread_alive, vad_is_speaking, vad_audio_buffer, silence_samples, pos,
             emitted, speechTotal, firstSpeech, lastSpeech, shape, prevSpeech, runs,
             silenceRun>>

VARIABLES
    \* ---- turn entry points (IrisGUI._process_vad_audio, on_ptt_stop, run_vad_mode)
    mode,                \* "gui" (run_gui_mode) or "cli" (run_vad_mode): the front end in use
    processing_lock,     \* IrisGUI._processing_lock: 0 when free, else the call holding it
    is_processing,       \* IrisGUI._is_processing
    calls,               \* per utterance: [entry, pc, outcome] of the thread started for it
    ran,                 \* per utterance: the stages ("stt", "llm", "tts") run on its audio
    arrivedBusy,         \* utterances whose _process_vad_audio call found the lock held
    pipeline_status      \* the stt / llm / tts indicators set by _set_pipeline_status

turnVars == <<mode, processing_lock, is_processing, calls, ran, arrivedBusy,
              pipeline_status>>

VARIABLES
    \* ---- barge-in monitor (IrisLocal._start_vad_monitor / _stop_vad_monitor)
    vad_monitor_active,  \* IrisLocal._vad_monitor_active
    interrupt_requested, \* IrisLocal._interrupt_requested
    vad_monitor_thread,  \* IrisLocal._vad_monitor_thread: 0 for None, else the monitor
    is_speaking,         \* IrisLocal._is_speaking
    monitors,            \* per monitor thread: [pc, speech_frames, recent, sets]
    flagSetter,          \* the monitor whose write made the flag true (0: flag cleared)
    \* the turn that uses the monitor
    turn,                \* number of turns started; the monitor of turn n is monitor n
    turnPc,              \* "idle" | "speaking" | "joining"
    observed,            \* the current turn saw _check_interrupt() return True
    blamed               \* the monitor whose write the current turn saw

monVars == <<vad_monitor_active, interrupt_requested, vad_monitor_thread, is_speaking,
             monitors, flagSetter, turn, turnPc, observed, blamed>>

VARIABLES
    \* ---- IrisLocal.process_voice
    cycle,               \* number of process_voice calls started
    pv_pc,               \* "idle" | "fetch" | "sentence" | "play" | "after_loop" |
                         \* "play_final" | "finally" | "joining" | "done"
    pv_error,            \* an exception is propagating out of the try block
    buffer,              \* buffer
    full_response,       \* full_response
    spoken_text,         \* spoken_text
    was_interrupted,     \* was_interrupted
    sentence,            \* sentence: the sentence cut from the buffer, until it has played
    audio_len,           \* len(tts_audio), in polling intervals of play_interruptible
    elapsed,             \* elapsed, in polling intervals
    nTokens,             \* tokens the stream has yielded in this cycle
    last_interruption,   \* IrisLocal._last_interruption
    conversation_history,\* IrisLocal._conversation_history
    \* history of the cycle, recorded for the claims
    priorStats,          \* the two counters when the cycle began: [context_used, total]
    total_tokens_session, \* IrisLocal._total_tokens_session
    context_used,        \* IrisLocal._context_used: prompt tokens of the last request
    flagSeen,            \* the flag was met set at a boundary: NoStep or [at, synth, started]
    foldedEvent,         \* the pending event as it was when the cycle folded it, or NoEvent
    cycle_status,        \* how the cycle ended: "running" | "done" | "no_speech" | "error" (an exception)
    llm_outcome,         \* how the LLM request of the cycle ended: "none" | "ok" | "raise" | "http_error"
    transcribed,         \* what transcribe gave the cycle: "text" | "empty" | "error"
    priorHistory,        \* _conversation_history when the cycle began
    priorEvent,          \* the InterruptionEvent that was pending when the cycle began
    llm_request,         \* the request the cycle sent to the LLM: NoRequest or [prompt, messages]
    lastPlay,            \* the last return of play_interruptible: NoStep or [len, returned, aborted, elapsed]
    lastCut,             \* what followed the terminal punctuation in the buffer when the last sentence was cut
    abortStep,           \* the sentence playback that was cut short: NoStep or [text, played, len, spokenBefore, tokens]
    earlyFlag,           \* the loop met the interrupt flag set before anything was synthesized
    consumed,            \* concatenation of every token the for loop took from the stream
    synth,               \* the texts given to tts.synthesize, in order
    plays,               \* [started, completed]: playbacks started and played in full
    flagAtLastPlayEnd,   \* the interrupt flag when the last full playback ended
    finalStep            \* the trailing-buffer step: NoStep or [spokenBefore, len, played]

VARIABLES
    \* ---- IrisGUI._process_vad_audio: _call_llm, then speak with the monitor
    gui_pc,              \* "idle" | "speak" | "play" | "after" | "joining" | "done"
    gui_response,        \* response
    gui_sentences,       \* speak: the sentences not yet reached by the for loop
    gui_spoken           \* speak: spoken_text, a list of texts

guiVars == <<gui_pc, gui_response, gui_sentences, gui_spoken>>

VARIABLES
    \* ---- AudioIO: construction and record_until_release
    audio_io,            \* [pc, use_ffmpeg, recording, chunks, result, calls, brokenAtStart]
    device               \* the capture device and its surroundings: [ok, configured,
                         \* fallback, silent]

audioVars == <<audio_io, device>>

VARIABLES
    \* ---- the VAD checkbox and the capture threads, step by step
    loops,               \* per _vad_loop thread: [pc, chunk, speech, silence_samples]
    toggler,             \* the GUI callback: [pc, vad_enabled]
    vad_thread,          \* IrisGUI._vad_thread: 0 (None) or the thread it refers to
    overlap              \* chunks read by a thread while another capture thread was alive

listenVars == <<loops, toggler, vad_thread, overlap>>

VARIABLES
    \* ---- warmup and clear_history
    warmed_up,           \* IrisLocal._warmed_up
    pendingAtClear       \* recorded for the claims: _last_interruption at the last
                         \* clear_history

lifeVars == <<warmed_up, pendingAtClear>>

voiceVars == <<cycle, pv_pc, pv_error, buffer, full_response, spoken_text,
               was_interrupted, sentence, audio_len, elapsed, nTokens,
               last_interruption, conversation_history, consumed, synth, plays,
               flagAtLastPlayEnd, finalStep,
               earlyFlag,
               abortStep,
               lastCut,
               lastPlay,
               llm_request,
               priorEvent,
               priorHistory,
               transcribed,
               llm_outcome,
               cycle_status,
               foldedEvent,
               flagSeen,
               context_used,
               total_tokens_session,
               priorStats>>

\* the harness of SpecMon, which process_voice replaces in SpecVoice
harnessVars == <<turn, turnPc, observed, blamed>>

vars == <<segVars, turnVars, monVars, voiceVars, guiVars, audioVars, listenVars, lifeVars>>

notSeg == <<turnVars, monVars, voiceVars, guiVars, audioVars, listenVars, lifeVars>>
notTurns == <<segVars, monVars, voiceVars, guiVars, audioVars, listenVars, lifeVars>>
notMon == <<segVars, turnVars, voiceVars, guiVars, audioVars, listenVars, lifeVars>>
notVoice == <<segVars, turnVars, harnessVars, guiVars, audioVars, listenVars, lifeVars>>
notGui == <<segVars, turnVars, harnessVars, audioVars, listenVars, lifeVars>>
notGuiLock == <<segVars, harnessVars, mode, calls, ran, arrivedBusy, audioVars, listenVars, lifeVars>>
notAudio == <<segVars, turnVars, monVars, voiceVars, guiVars, listenVars, lifeVars>>

(***************************************************************************)
(* SileroVAD.is_speech: speech_prob > self.threshold                       *)
(***************************************************************************)
IsSpeech(prob, threshold) == prob > threshold

\* len(np.concatenate(buffer)) for a buffer of full chunks
AudioLen(chunks) == Len(chunks) * chunk_samples

\* number of whole chunks a silence run needs to reach silence_threshold
SilenceChunks == (silence_threshold + chunk_samples - 1) \div chunk_samples

(***************************************************************************)
(* The minimum-length test applied when an utterance is finalized.         *)
(***************************************************************************)
LongEnough(audio) == AudioLen(audio) >= min_samples

\* the silence-run counter after a speech chunk (silence_samples = 0)
SilenceAfterSpeechMutant(s) == s
SilenceAfterSpeech(s) == 0

\* the chunks kept for a non-speech chunk received while speaking
AppendSilenceMutant(chunks, p) == chunks
AppendSilence(chunks, p) == Append(chunks, p)

(***************************************************************************)
(* Shape of the input: leading silence, one speech region (gaps shorter    *)
(* than the silence threshold allowed), then trailing silence.             *)
(***************************************************************************)
ShapeAfter(sh, speech, tailRun) ==
    IF sh = "broken" THEN "broken"
    ELSE IF speech THEN (IF sh = "tail" THEN "broken" ELSE "speech")
    ELSE IF sh = "speech" /\ tailRun >= SilenceChunks THEN "tail"
    ELSE sh

\* number of whole chunks that make up min_samples
MinChunks == (min_samples + chunk_samples - 1) \div chunk_samples

\* the speech count is recorded up to MinChunks: beyond it the input has
\* "at least min_speech_duration of speech" whatever follows
Saturate(n) == IF n > MinChunks THEN MinChunks ELSE n

\* the inputs explored: at most MaxLead chunks of leading silence and at most
\* MaxRuns runs of speech
InputAllowed(speech) ==
    /\ (~speech /\ speechTotal = 0) => pos < MaxLead
    /\ (speech /\ ~prevSpeech) => runs < MaxRuns

(***************************************************************************)
(* One iteration of the capture loop on a full chunk with VAD result prob. *)
(***************************************************************************)
SegmentChunk(prob) ==
    /\ vad_active
    /\ vad_thread_alive
    /\ pos < MaxChunks
    /\ InputAllowed(IsSpeech(prob, vad_threshold))
    /\ LET p == pos + 1
           speech == IsSpeech(prob, vad_threshold)
       IN /\ pos' = p
          /\ prevSpeech' = speech
          /\ runs' = IF speech /\ ~prevSpeech THEN runs + 1 ELSE runs
          /\ silenceRun' = IF speech THEN 0 ELSE silenceRun + 1
          /\ speechTotal' = IF speech THEN Saturate(speechTotal + 1) ELSE speechTotal
          /\ shape' = ShapeAfter(shape, speech, p - lastSpeech)
          /\ firstSpeech' = IF shape' = "broken" THEN 0
                            ELSE IF speech /\ firstSpeech = 0 THEN p ELSE firstSpeech
          /\ lastSpeech' = IF shape' = "broken" THEN 0
                           ELSE IF speech THEN p ELSE lastSpeech
          /\ IF speech
             THEN /\ vad_is_speaking' = TRUE
                  /\ vad_audio_buffer' =
                        Append(IF vad_is_speaking THEN vad_audio_buffer ELSE <<>>, p)
                  /\ silence_samples' = SilenceAfterSpeech(silence_samples)
                  /\ UNCHANGED emitted
             ELSE IF vad_is_speaking
                  THEN LET sil == silence_samples + chunk_samples
                           buf == AppendSilence(vad_audio_buffer, p)
                       IN IF sil >= silence_threshold
                          THEN /\ vad_is_speaking' = FALSE
                               /\ emitted' = IF buf # <<>> /\ LongEnough(buf)
                                             THEN Append(emitted, buf)
                                             ELSE emitted
                               /\ vad_audio_buffer' = <<>>
                               /\ silence_samples' = 0
                          ELSE /\ silence_samples' = sil
                               /\ vad_audio_buffer' = buf
                               /\ UNCHANGED <<vad_is_speaking, emitted>>
                  ELSE UNCHANGED <<vad_is_speaking, vad_audio_buffer,
                                   silence_samples, emitted>>
    /\ UNCHANGED <<vad_active, vad_thread_alive>>
    /\ UNCHANGED notSeg

(***************************************************************************)
(* One iteration of _vad_loop in which the VAD inference (line 625) raises *)
(* on the chunk read: the try block of lines 607-668 has a finally and no  *)
(* except, so the exception ends the thread; _vad_active is not changed.   *)
(***************************************************************************)
SegmentChunkRaises ==
    /\ vad_active
    /\ vad_thread_alive
    /\ pos < MaxChunks
    /\ pos' = pos + 1
    /\ vad_thread_alive' = FALSE
    /\ shape' = "broken"
    /\ firstSpeech' = 0
    /\ lastSpeech' = 0
    /\ UNCHANGED <<vad_active, vad_is_speaking, vad_audio_buffer, silence_samples,
                   emitted, speechTotal, prevSpeech, runs, silenceRun>>
    /\ UNCHANGED notSeg

(***************************************************************************)
(* IrisGUI._stop_vad_listening: flush the open utterance, clear, stop.     *)
(***************************************************************************)
StopVadListening ==
    /\ vad_active
    /\ vad_active' = FALSE
    /\ vad_thread_alive' = FALSE
    /\ emitted' = IF vad_is_speaking /\ vad_audio_buffer # <<>>
                     /\ LongEnough(vad_audio_buffer)
                  THEN Append(emitted, vad_audio_buffer)
                  ELSE emitted
    /\ vad_audio_buffer' = <<>>
    /\ vad_is_speaking' = FALSE
    /\ shape' = "broken"
    /\ firstSpeech' = 0
    /\ lastSpeech' = 0
    /\ prevSpeech' = FALSE
    /\ UNCHANGED <<silence_samples, pos, speechTotal, runs, silenceRun>>
    /\ UNCHANGED notSeg

(***************************************************************************)
(* IrisGUI._start_vad_listening followed by the prologue of _vad_loop.     *)
(***************************************************************************)
StartVadListening ==
    /\ ~vad_active
    /\ vad_active' = TRUE
    /\ vad_thread_alive' = TRUE
    /\ vad_audio_buffer' = <<>>
    /\ vad_is_speaking' = FALSE
    /\ silence_samples' = 0
    /\ silenceRun' = 0
    /\ UNCHANGED <<pos, emitted, speechTotal, firstSpeech, lastSpeech, shape,
                   prevSpeech, runs>>
    /\ UNCHANGED notSeg

NextSeg ==
    \/ \E prob \in SegProbs : SegmentChunk(prob)
    \/ StopVadListening
    \/ StartVadListening

(***************************************************************************)
(* The VAD checkbox and the capture threads, one shared access per step.   *)
(* _on_vad_toggle runs on the GUI callback thread and each _vad_loop on a  *)
(* thread of its own; _vad_active, _vad_is_speaking and _vad_audio_buffer  *)
(* are plain attributes read and written by both without a lock.           *)
(*   loop pc:    "unborn", "prologue", "prologue2", "test", "classified",  *)
(*               "begin", "begin2", "append", "append_silence", "end",     *)
(*               "has_buffer", "concat", "clear", "done"                   *)
(*   toggler pc: "idle", "stop_test", "stop_test2", "stop_concat",         *)
(*               "stop_clear", "stop_clear2", "stop_join"                  *)
(***************************************************************************)
\* capture threads that may be started
MaxLoops == 2
\* chunks read by the capture threads together
MaxHeard == 36
\* the input explored: MaxSpoken chunks of speech, then silence
MaxSpoken == 18
\* chunks read while more than one capture thread is alive
MaxOverlap == 2

LoopIds == 1..MaxLoops

NewLoop == [pc |-> "unborn", chunk |-> 0, speech |-> FALSE, silence_samples |-> 0]
NewToggler == [pc |-> "idle", vad_enabled |-> FALSE]

\* Thread.is_alive()
IsAlive(t) == loops[t].pc \notin {"unborn", "done"}

\* a capture thread other than t is alive
OthersAlive(t) == \E u \in LoopIds \ {t} : IsAlive(u)

\* the chunks of a buffer
ChunksOf(audio) == {audio[i] : i \in DOMAIN audio}

\* what the segmenter of SpecSeg records about its input, and what the
\* other parts of the program hold
segHistory == <<vad_thread_alive, silence_samples, speechTotal, firstSpeech, lastSpeech,
                shape, prevSpeech, runs, silenceRun>>
notListen == <<segHistory, turnVars, monVars, voiceVars, guiVars, audioVars, lifeVars>>

\* threading.Thread(target=self._process_vad_audio, args=(audio,)).start()
\* behind the minimum-length test
Submit(audio) == IF LongEnough(audio) THEN Append(emitted, audio) ELSE emitted

(***************************************************************************)
(* _on_vad_toggle(True): _start_vad_listening.                             *)
(***************************************************************************)
ToggleOn ==
    /\ toggler.pc = "idle"
    /\ ~toggler.vad_enabled
    /\ toggler' = [toggler EXCEPT !.vad_enabled = TRUE]
    /\ IF vad_thread # 0 /\ IsAlive(vad_thread)
       THEN UNCHANGED <<vad_active, vad_thread, loops>>
       ELSE \E t \in LoopIds :
               /\ loops[t].pc = "unborn"
               /\ \A u \in LoopIds : u < t => loops[u].pc # "unborn"
               /\ vad_active' = TRUE
               /\ vad_thread' = t
               /\ loops' = [loops EXCEPT ![t].pc = "prologue"]
    /\ UNCHANGED <<vad_is_speaking, vad_audio_buffer, pos, emitted>>
    /\ UNCHANGED <<overlap, notListen>>

(***************************************************************************)
(* _on_vad_toggle(False): _stop_vad_listening, line by line.               *)
(***************************************************************************)
\* line 545
ToggleOff ==
    /\ toggler.pc = "idle"
    /\ toggler.vad_enabled
    /\ toggler' = [pc |-> "stop_test", vad_enabled |-> FALSE]
    /\ vad_active' = FALSE
    /\ UNCHANGED <<vad_thread, loops, vad_is_speaking, vad_audio_buffer, pos, emitted>>
    /\ UNCHANGED <<overlap, notListen>>

\* line 548, left operand
StopTestSpeaking ==
    /\ toggler.pc = "stop_test"
    /\ toggler' = [toggler EXCEPT !.pc = IF vad_is_speaking THEN "stop_test2"
                                         ELSE "stop_clear"]
    /\ UNCHANGED <<vad_active, vad_thread, loops, vad_is_speaking, vad_audio_buffer,
                   pos, emitted>>
    /\ UNCHANGED <<overlap, notListen>>

\* line 548, right operand
StopTestBuffer ==
    /\ toggler.pc = "stop_test2"
    /\ toggler' = [toggler EXCEPT !.pc = IF vad_audio_buffer # <<>> THEN "stop_concat"
                                         ELSE "stop_clear"]
    /\ UNCHANGED <<vad_active, vad_thread, loops, vad_is_speaking, vad_audio_buffer,
                   pos, emitted>>
    /\ UNCHANGED <<overlap, notListen>>

\* lines 549-564: np.concatenate raises ValueError on an empty list, which
\* ends the callback; otherwise the audio is handed to a thread if long enough
StopFlush ==
    /\ toggler.pc = "stop_concat"
    /\ IF vad_audio_buffer = <<>>
       THEN /\ toggler' = [toggler EXCEPT !.pc = "idle"]
            /\ UNCHANGED emitted
       ELSE /\ toggler' = [toggler EXCEPT !.pc = "stop_clear"]
            /\ emitted' = Submit(vad_audio_buffer)
    /\ UNCHANGED <<vad_active, vad_thread, loops, vad_is_speaking, vad_audio_buffer, pos>>
    /\ UNCHANGED <<overlap, notListen>>

\* line 567
StopClearBuffer ==
    /\ toggler.pc = "stop_clear"
    /\ toggler' = [toggler EXCEPT !.pc = "stop_clear2"]
    /\ vad_audio_buffer' = <<>>
    /\ UNCHANGED <<vad_active, vad_thread, loops, vad_is_speaking, pos, emitted>>
    /\ UNCHANGED <<overlap, notListen>>

\* line 568
StopClearSpeaking ==
    /\ toggler.pc = "stop_clear2"
    /\ toggler' = [toggler EXCEPT !.pc = "stop_join"]
    /\ vad_is_speaking' = FALSE
    /\ UNCHANGED <<vad_active, vad_thread, loops, vad_audio_buffer, pos, emitted>>
    /\ UNCHANGED <<overlap, notListen>>

\* lines 570-573: join(timeout=1) returns when the thread has ended or when
\* the second is over, whichever comes first; the reference is dropped
StopJoin ==
    /\ toggler.pc = "stop_join"
    /\ toggler' = [toggler EXCEPT !.pc = "idle"]
    /\ vad_thread' = 0
    /\ UNCHANGED <<vad_active, loops, vad_is_speaking, vad_audio_buffer, pos, emitted>>
    /\ UNCHANGED <<overlap, notListen>>

(***************************************************************************)
(* _vad_loop on thread t, line by line.                                    *)
(***************************************************************************)
\* line 584
LoopResetBuffer(t) ==
    /\ loops[t].pc = "prologue"
    /\ loops' = [loops EXCEPT ![t].pc = "prologue2"]
    /\ vad_audio_buffer' = <<>>
    /\ UNCHANGED <<vad_active, vad_thread, toggler, vad_is_speaking, pos, emitted>>
    /\ UNCHANGED <<overlap, notListen>>

\* lines 585-587
LoopResetSpeaking(t) ==
    /\ loops[t].pc = "prologue2"
    /\ loops' = [loops EXCEPT ![t].pc = "test", ![t].silence_samples = 0]
    /\ vad_is_speaking' = FALSE
    /\ UNCHANGED <<vad_active, vad_thread, toggler, vad_audio_buffer, pos, emitted>>
    /\ UNCHANGED <<overlap, notListen>>

\* lines 608-625: the while test, then a chunk is read and classified
LoopRead(t) ==
    /\ loops[t].pc = "test"
    /\ IF ~vad_active
       THEN /\ loops' = [loops EXCEPT ![t].pc = "done"]
            /\ UNCHANGED <<pos, overlap>>
       ELSE /\ pos < MaxHeard
            /\ OthersAlive(t) => overlap < MaxOverlap
            /\ overlap' = IF OthersAlive(t) THEN overlap + 1 ELSE overlap
            /\ pos' = pos + 1
            /\ loops' = [loops EXCEPT ![t].pc = "classified",
                                      ![t].chunk = pos + 1,
                                      ![t].speech = (pos + 1 <= MaxSpoken)]
    /\ UNCHANGED <<vad_active, vad_thread, toggler, vad_is_speaking, vad_audio_buffer,
                   emitted>>
    /\ UNCHANGED notListen

\* lines 629 and 638: the test of _vad_is_speaking in either branch
LoopTestSpeaking(t) ==
    /\ loops[t].pc = "classified"
    /\ loops' = IF loops[t].speech
                THEN [loops EXCEPT ![t].pc = IF vad_is_speaking THEN "append" ELSE "begin"]
                ELSE IF vad_is_speaking
                     THEN [loops EXCEPT ![t].pc = "append_silence",
                                        ![t].silence_samples = @ + chunk_samples]
                     ELSE [loops EXCEPT ![t].pc = "test"]
    /\ UNCHANGED <<vad_active, vad_thread, toggler, vad_is_speaking, vad_audio_buffer,
                   pos, emitted>>
    /\ UNCHANGED <<overlap, notListen>>

\* line 631
LoopBeginSpeaking(t) ==
    /\ loops[t].pc = "begin"
    /\ loops' = [loops EXCEPT ![t].pc = "begin2"]
    /\ vad_is_speaking' = TRUE
    /\ UNCHANGED <<vad_active, vad_thread, toggler, vad_audio_buffer, pos, emitted>>
    /\ UNCHANGED <<overlap, notListen>>

\* line 632
LoopBeginBuffer(t) ==
    /\ loops[t].pc = "begin2"
    /\ loops' = [loops EXCEPT ![t].pc = "append"]
    /\ vad_audio_buffer' = <<>>
    /\ UNCHANGED <<vad_active, vad_thread, toggler, vad_is_speaking, pos, emitted>>
    /\ UNCHANGED <<overlap, notListen>>

\* lines 635-636
LoopAppendSpeech(t) ==
    /\ loops[t].pc = "append"
    /\ loops' = [loops EXCEPT ![t].pc = "test", ![t].silence_samples = 0]
    /\ vad_audio_buffer' = Append(vad_audio_buffer, loops[t].chunk)
    /\ UNCHANGED <<vad_active, vad_thread, toggler, vad_is_speaking, pos, emitted>>
    /\ UNCHANGED <<overlap, notListen>>

\* lines 640-642
LoopAppendSilence(t) ==
    /\ loops[t].pc = "append_silence"
    /\ loops' = [loops EXCEPT ![t].pc = IF loops[t].silence_samples >= silence_threshold
                                        THEN "end" ELSE "test"]
    /\ vad_audio_buffer' = Append(vad_audio_buffer, loops[t].chunk)
    /\ UNCHANGED <<vad_active, vad_thread, toggler, vad_is_speaking, pos, emitted>>
    /\ UNCHANGED <<overlap, notListen>>

\* line 644
LoopEndSpeaking(t) ==
    /\ loops[t].pc = "end"
    /\ loops' = [loops EXCEPT ![t].pc = "has_buffer"]
    /\ vad_is_speaking' = FALSE
    /\ UNCHANGED <<vad_active, vad_thread, toggler, vad_audio_buffer, pos, emitted>>
    /\ UNCHANGED <<overlap, notListen>>

\* line 646
LoopTestBuffer(t) ==
    /\ loops[t].pc = "has_buffer"
    /\ loops' = [loops EXCEPT ![t].pc = IF vad_audio_buffer # <<>> THEN "concat"
                                        ELSE "clear"]
    /\ UNCHANGED <<vad_active, vad_thread, toggler, vad_is_speaking, vad_audio_buffer,
                   pos, emitted>>
    /\ UNCHANGED <<overlap, notListen>>

\* lines 647-661: np.concatenate raises ValueError on an empty list, which
\* ends the thread through the finally of line 666
LoopSubmit(t) ==
    /\ loops[t].pc = "concat"
    /\ IF vad_audio_buffer = <<>>
       THEN /\ loops' = [loops EXCEPT ![t].pc = "done"]
            /\ UNCHANGED emitted
       ELSE /\ loops' = [loops EXCEPT ![t].pc = "clear"]
            /\ emitted' = Submit(vad_audio_buffer)
    /\ UNCHANGED <<vad_active, vad_thread, toggler, vad_is_speaking, vad_audio_buffer, pos>>
    /\ UNCHANGED <<overlap, notListen>>

\* lines 663-665
LoopClear(t) ==
    /\ loops[t].pc = "clear"
    /\ loops' = [loops EXCEPT ![t].pc = "test", ![t].silence_samples = 0]
    /\ vad_audio_buffer' = <<>>
    /\ UNCHANGED <<vad_active, vad_thread, toggler, vad_is_speaking, pos, emitted>>
    /\ UNCHANGED <<overlap, notListen>>

NextListen ==
    \/ ToggleOn
    \/ ToggleOff
    \/ StopTestSpeaking
    \/ StopTestBuffer
    \/ StopFlush
    \/ StopClearBuffer
    \/ StopClearSpeaking
    \/ StopJoin
    \/ \E t \in LoopIds :
          \/ LoopResetBuffer(t)
          \/ LoopResetSpeaking(t)
          \/ LoopRead(t)
          \/ LoopTestSpeaking(t)
          \/ LoopBeginSpeaking(t)
          \/ LoopBeginBuffer(t)
          \/ LoopAppendSpeech(t)
          \/ LoopAppendSilence(t)
          \/ LoopEndSpeaking(t)
          \/ LoopTestBuffer(t)
          \/ LoopSubmit(t)
          \/ LoopClear(t)

(***************************************************************************)
(* Turn entry points.                                                      *)
(*   gui_vad  IrisGUI._process_vad_audio, started by _vad_loop or by the   *)
(*            flush of _stop_vad_listening                                 *)
(*   gui_ptt  the process() thread started by run_gui_mode.on_ptt_stop     *)
(*   cli_vad  the IrisLocal.process_voice thread started by                *)
(*            run_vad_mode.audio_callback                                  *)
(* A call's pc: "new" (not started), "stt", "llm", "tts", "finally",       *)
(* "done", "dropped".                                                      *)
(***************************************************************************)
\* utterances finalized during one run
MaxCalls == 3

CallIds == 1..MaxCalls

Stages == {"stt", "llm", "tts"}

NewCall == [entry |-> None, pc |-> "new", outcome |-> None]

\* a conversational turn (STT -> LLM -> TTS/playback) is running for call c
InFlight(c) == calls[c].pc \in Stages

\* the three indicators, all idle
IdleStatus == [stt |-> "idle", llm |-> "idle", tts |-> "idle"]

\* the call runs in the GUI, whose threads set the indicators
InGui(c) == calls[c].entry \in {"gui_vad", "gui_ptt"}

\* the indicators when the work of call c is over: the finally block of
\* process() (on_ptt_stop) runs at once, that of _process_vad_audio is a step
\* of its own
StatusAtEnd(c, status) == IF calls[c].entry = "gui_ptt" THEN IdleStatus ELSE status

\* what a _process_vad_audio call that finds the lock held does to the lock
\* (lines 673-676: it returns before the try block)
LockAfterDropMutant(lock) == 0
LockAfterDrop(lock) == lock

\* threading.Lock.acquire(blocking=False): succeeds exactly when the lock is free
AcquireMutant(lock) == TRUE
Acquire(lock) == lock = 0

\* the lock after the finally block of _process_vad_audio
ReleaseMutant(c, outcome) == IF outcome = "error" THEN c ELSE 0
Release(c, outcome) == 0

(***************************************************************************)
(* _process_vad_audio, lines 673-678: try the lock; drop the utterance if  *)
(* it is held, else mark processing and enter the try block.               *)
(***************************************************************************)
GuiVadEnter(c) ==
    /\ mode = "gui"
    /\ calls[c].pc = "new"
    /\ IF Acquire(processing_lock)
       THEN /\ processing_lock' = c
            /\ is_processing' = TRUE
            /\ pipeline_status' = [pipeline_status EXCEPT !.stt = "active"]
            /\ calls' = [calls EXCEPT ![c] = [entry |-> "gui_vad", pc |-> "stt",
                                              outcome |-> None]]
       ELSE /\ calls' = [calls EXCEPT ![c] = [entry |-> "gui_vad", pc |-> "dropped",
                                              outcome |-> "dropped"]]
            /\ processing_lock' = LockAfterDrop(processing_lock)
            /\ UNCHANGED <<is_processing, pipeline_status>>
    /\ arrivedBusy' = IF processing_lock # 0 THEN arrivedBusy \cup {c} ELSE arrivedBusy
    /\ UNCHANGED <<mode, ran>>
    /\ UNCHANGED notTurns

(***************************************************************************)
(* on_ptt_stop: recordings of at most 0.3 s are ignored; otherwise a       *)
(* process() thread is started.  No lock is taken.                         *)
(***************************************************************************)
PttStop(c, longEnough) ==
    /\ mode = "gui"
    /\ calls[c].pc = "new"
    /\ calls' = [calls EXCEPT ![c] =
                    IF longEnough
                    THEN [entry |-> "gui_ptt", pc |-> "stt", outcome |-> None]
                    ELSE [entry |-> "gui_ptt", pc |-> "done", outcome |-> "ignored"]]
    /\ pipeline_status' = IF longEnough THEN [pipeline_status EXCEPT !.stt = "active"]
                                      ELSE pipeline_status
    /\ UNCHANGED <<mode, processing_lock, is_processing, ran, arrivedBusy>>
    /\ UNCHANGED notTurns

(***************************************************************************)
(* run_vad_mode.audio_callback, lines 1297-1305: a finalized utterance     *)
(* starts a thread running iris.process_voice.  No lock is taken.          *)
(***************************************************************************)
CliVadEnter(c) ==
    /\ mode = "cli"
    /\ calls[c].pc = "new"
    /\ calls' = [calls EXCEPT ![c] = [entry |-> "cli_vad", pc |-> "stt", outcome |-> None]]
    /\ UNCHANGED <<mode, processing_lock, is_processing, ran, arrivedBusy,
                   pipeline_status>>
    /\ UNCHANGED notTurns

\* where a thread goes when its work is over: _process_vad_audio has a finally block
AfterWork(c) == IF calls[c].entry = "gui_vad" THEN "finally" ELSE "done"

(***************************************************************************)
(* iris.transcribe(audio): a transcript, an empty transcript, or an        *)
(* exception.                                                              *)
(***************************************************************************)
Transcribe(c, result) ==
    /\ calls[c].pc = "stt"
    /\ ran' = [ran EXCEPT ![c] = @ \cup {"stt"}]
    /\ calls' = [calls EXCEPT ![c] =
                    CASE result = "text"  -> [@ EXCEPT !.pc = "llm"]
                      [] result = "empty" -> [@ EXCEPT !.pc = AfterWork(c),
                                                       !.outcome = "no_speech"]
                      [] OTHER            -> [@ EXCEPT !.pc = AfterWork(c),
                                                       !.outcome = "error"]]
    /\ pipeline_status' =
          IF ~InGui(c) THEN pipeline_status
          ELSE IF result = "text"
          THEN [pipeline_status EXCEPT !.stt = "done", !.llm = "active"]
          ELSE StatusAtEnd(c, pipeline_status)
    /\ UNCHANGED <<mode, processing_lock, is_processing, arrivedBusy>>
    /\ UNCHANGED notTurns

(***************************************************************************)
(* The LLM request of the turn (iris._call_llm, or the streaming request   *)
(* of process_voice): a response or an exception.                          *)
(***************************************************************************)
CallLlm(c, ok) ==
    /\ calls[c].pc = "llm"
    /\ ran' = [ran EXCEPT ![c] = @ \cup {"llm"}]
    /\ calls' = [calls EXCEPT ![c] =
                    IF ok THEN [@ EXCEPT !.pc = "tts"]
                    ELSE [@ EXCEPT !.pc = AfterWork(c), !.outcome = "error"]]
    /\ pipeline_status' =
          IF ~InGui(c) THEN pipeline_status
          ELSE IF ok
          THEN [pipeline_status EXCEPT !.llm = "done", !.tts = "active"]
          ELSE StatusAtEnd(c, pipeline_status)
    /\ UNCHANGED <<mode, processing_lock, is_processing, arrivedBusy>>
    /\ UNCHANGED notTurns

(***************************************************************************)
(* Synthesis and playback of the response: played in full, cut short by    *)
(* barge-in, or an exception from TTS or from the audio device.            *)
(***************************************************************************)
Speak(c, result) ==
    /\ calls[c].pc = "tts"
    /\ result \in {"completed", "interrupted", "error"}
    /\ ran' = [ran EXCEPT ![c] = @ \cup {"tts"}]
    /\ calls' = [calls EXCEPT ![c] = [@ EXCEPT !.pc = AfterWork(c), !.outcome = result]]
    /\ pipeline_status' =
          IF ~InGui(c) THEN pipeline_status
          ELSE StatusAtEnd(c, IF result = "error" THEN pipeline_status
                              ELSE [pipeline_status EXCEPT !.tts = "done"])
    /\ UNCHANGED <<mode, processing_lock, is_processing, arrivedBusy>>
    /\ UNCHANGED notTurns

(***************************************************************************)
(* _process_vad_audio, lines 737-740: the finally block.                   *)
(***************************************************************************)
GuiVadFinally(c) ==
    /\ calls[c].pc = "finally"
    /\ is_processing' = FALSE
    /\ pipeline_status' = IdleStatus
    /\ processing_lock' = Release(c, calls[c].outcome)
    /\ calls' = [calls EXCEPT ![c] = [@ EXCEPT !.pc = "done"]]
    /\ UNCHANGED <<mode, ran, arrivedBusy>>
    /\ UNCHANGED notTurns

NextTurns ==
    \/ \E c \in CallIds : GuiVadEnter(c)
    \/ \E c \in CallIds, longEnough \in BOOLEAN : PttStop(c, longEnough)
    \/ \E c \in CallIds : CliVadEnter(c)
    \/ \E c \in CallIds, result \in {"text", "empty", "error"} : Transcribe(c, result)
    \/ \E c \in CallIds, ok \in BOOLEAN : CallLlm(c, ok)
    \/ \E c \in CallIds, result \in {"completed", "interrupted", "error"} : Speak(c, result)
    \/ \E c \in CallIds : GuiVadFinally(c)

(***************************************************************************)
(* The barge-in monitor.                                                   *)
(* A monitor thread's pc: "unborn", "check" (at the while condition),      *)
(* "read" (blocked in process.stdout.read / VAD inference), "exited".      *)
(***************************************************************************)
\* turns of one run
MaxTurns == 2

MonIds == 1..MaxTurns

\* SileroVAD(threshold=0.7) and the test confidence > 0.7, in tenths
monitor_threshold == 7
\* speech_threshold: consecutive speech frames needed
speech_threshold == 3

\* speech probabilities the monitor's VAD may report for a frame, in tenths
MonProbs == {7, 8}

NewMonitor == [pc |-> "unborn", speech_frames |-> 0, recent |-> <<>>, sets |-> 0,
               broken |-> FALSE, crashed |-> FALSE]

\* a monitor has been started after monitor m
Superseded(m) == \E later \in MonIds : later > m /\ monitors[later].pc # "unborn"

\* monitor_loop, line 684: is_speech and confidence > 0.7
FrameIsSpeech(prob) == IsSpeech(prob, monitor_threshold) /\ prob > monitor_threshold

\* monitor_loop, lines 684-691: the counter after one classified frame
NextSpeechFramesMutant(frames, speech) == IF speech THEN frames + 1 ELSE frames
NextSpeechFrames(frames, speech) == IF speech THEN frames + 1 ELSE 0

\* the last frames classified, at most speech_threshold of them
Remember(recent, prob) ==
    LET all == Append(recent, prob)
    IN IF Len(all) > speech_threshold THEN Tail(all) ELSE all

(***************************************************************************)
(* _start_vad_monitor: set active, clear the flag, start a new thread.     *)
(***************************************************************************)
StartVadMonitor(m) ==
    /\ vad_monitor_active' = TRUE
    /\ interrupt_requested' = FALSE
    /\ flagSetter' = 0
    /\ monitors' = [monitors EXCEPT ![m] = [NewMonitor EXCEPT !.pc = "check"]]
    /\ vad_monitor_thread' = m

(***************************************************************************)
(* monitor_loop, line 670: the while condition.  The ffmpeg process is     *)
(* taken to be running; its end is MonitorEof.                             *)
(***************************************************************************)
MonitorCheck(m) ==
    /\ monitors[m].pc = "check"
    /\ monitors' = [monitors EXCEPT ![m].pc =
                        IF vad_monitor_active THEN "read" ELSE "exited"]
    /\ UNCHANGED <<vad_monitor_active, interrupt_requested, vad_monitor_thread,
                   is_speaking, flagSetter, turn, turnPc, observed, blamed>>
    /\ UNCHANGED notMon

(***************************************************************************)
(* monitor_loop, lines 671-691: read one full frame, classify it, count,   *)
(* and raise the flag at speech_threshold consecutive speech frames.       *)
(***************************************************************************)
MonitorFrame(m, prob) ==
    /\ monitors[m].pc = "read"
    /\ LET frames == NextSpeechFrames(monitors[m].speech_frames, FrameIsSpeech(prob))
           raise == FrameIsSpeech(prob) /\ frames >= speech_threshold
       IN /\ monitors' = [monitors EXCEPT ![m] =
                            [pc |-> IF raise THEN "exited" ELSE "check",
                             speech_frames |-> frames,
                             recent |-> Remember(@.recent, prob),
                             sets |-> IF raise THEN @.sets + 1 ELSE @.sets,
                             broken |-> @.broken \/ (@.speech_frames > 0 /\ frames = 0),
                             crashed |-> @.crashed]]
          /\ interrupt_requested' = IF raise THEN TRUE ELSE interrupt_requested
          /\ flagSetter' = IF raise THEN m ELSE flagSetter
    /\ UNCHANGED <<vad_monitor_active, vad_monitor_thread, is_speaking, turn, turnPc,
                   observed, blamed>>
    /\ UNCHANGED notMon

(***************************************************************************)
(* monitor_loop, line 682: monitor_vad.is_speech raises on the frame read. *)
(* The try block of lines 669-696 has a finally and no except: the         *)
(* exception ends the thread.                                              *)
(***************************************************************************)
MonitorRaises(m) ==
    /\ monitors[m].pc = "read"
    /\ monitors' = [monitors EXCEPT ![m].pc = "exited", ![m].crashed = TRUE]
    /\ UNCHANGED <<vad_monitor_active, interrupt_requested, vad_monitor_thread,
                   is_speaking, flagSetter, turn, turnPc, observed, blamed>>
    /\ UNCHANGED notMon

(***************************************************************************)
(* monitor_loop, lines 672-673 and 679-680: the pipe is at end of file (no *)
(* data, or a last short chunk that is skipped and followed by no data).   *)
(***************************************************************************)
MonitorEof(m) ==
    /\ monitors[m].pc = "read"
    /\ monitors' = [monitors EXCEPT ![m].pc = "exited"]
    /\ UNCHANGED <<vad_monitor_active, interrupt_requested, vad_monitor_thread,
                   is_speaking, flagSetter, turn, turnPc, observed, blamed>>
    /\ UNCHANGED notMon

(***************************************************************************)
(* _stop_vad_monitor, lines 701-704: clear active, then join(timeout=0.5). *)
(* The join returns when the thread has ended, or at the timeout with the  *)
(* thread still running; either way the reference is dropped.              *)
(***************************************************************************)
StopVadMonitorBegin ==
    /\ vad_monitor_active' = FALSE

JoinReturns(timedOut) ==
    /\ vad_monitor_thread # 0 =>
          (timedOut <=> monitors[vad_monitor_thread].pc # "exited")
    /\ vad_monitor_thread = 0 => ~timedOut
    /\ vad_monitor_thread' = 0

(***************************************************************************)
(* The turn around the monitor, as in process_voice (lines 1062-1065,      *)
(* 1070, 1090, 1130-1133) and _process_vad_audio (lines 708-728).          *)
(***************************************************************************)
TurnStart ==
    /\ turnPc = "idle"
    /\ turn < MaxTurns
    /\ turn' = turn + 1
    /\ StartVadMonitor(turn + 1)
    /\ is_speaking' = TRUE
    /\ turnPc' = "speaking"
    /\ observed' = FALSE
    /\ blamed' = 0
    /\ UNCHANGED notMon

\* _check_interrupt() called by the turn
TurnCheckInterrupt ==
    /\ turnPc = "speaking"
    /\ ~observed
    /\ interrupt_requested
    /\ observed' = TRUE
    /\ blamed' = flagSetter
    /\ UNCHANGED <<vad_monitor_active, interrupt_requested, vad_monitor_thread,
                   is_speaking, monitors, flagSetter, turn, turnPc>>
    /\ UNCHANGED notMon

\* the finally block: _is_speaking = False, then _stop_vad_monitor()
TurnStop ==
    /\ turnPc = "speaking"
    /\ is_speaking' = FALSE
    /\ StopVadMonitorBegin
    /\ turnPc' = "joining"
    /\ UNCHANGED <<interrupt_requested, vad_monitor_thread, monitors, flagSetter,
                   turn, observed, blamed>>
    /\ UNCHANGED notMon

TurnJoin(timedOut) ==
    /\ turnPc = "joining"
    /\ JoinReturns(timedOut)
    /\ turnPc' = "idle"
    /\ UNCHANGED <<vad_monitor_active, interrupt_requested, is_speaking, monitors,
                   flagSetter, turn, observed, blamed>>
    /\ UNCHANGED notMon

NextMon ==
    \/ TurnStart
    \/ TurnCheckInterrupt
    \/ TurnStop
    \/ \E timedOut \in BOOLEAN : TurnJoin(timedOut)
    \/ \E m \in MonIds : MonitorCheck(m)
    \/ \E m \in MonIds, prob \in MonProbs : MonitorFrame(m, prob)
    \/ \E m \in MonIds : MonitorEof(m)

(***************************************************************************)
(* IrisLocal.process_voice (allow_interrupt = True, as every caller has    *)
(* it).  Text is a sequence of characters.                                 *)
(***************************************************************************)
\* process_voice calls of one run
MaxCycles == 2
\* tokens one LLM stream yields
MaxTokens == 3
\* length of one synthesized audio, in polling intervals of play_interruptible
MaxAudioTicks == 2

\* the tokens a stream may yield ("" is what the final "done" line carries)
Tokens == { <<>>, <<"a">>, <<".">>, <<" ">>, <<"a", ".", " ", "a">>, <<".", ".", ".">> }

IsTerminal(ch) == ch \in {".", "!", "?"}
IsSpace(ch) == ch = " "

\* re.match(r'(.+?[.!?])\s*', buffer): index of the character that ends
\* group 1, the first terminal character after at least one character; 0 when
\* there is no match
SentenceEnd(buf) ==
    LET ends == {k \in 2..Len(buf) : IsTerminal(buf[k])}
    IN IF ends = {} THEN 0 ELSE CHOOSE k \in ends : \A j \in ends : k <= j

\* index of the first character at or after i that \s* does not take
SkipSpaces(buf, i) ==
    LET stops == {j \in i..Len(buf) : ~IsSpace(buf[j])}
    IN IF stops = {} THEN Len(buf) + 1 ELSE CHOOSE j \in stops : \A k \in stops : j <= k

\* match.group(1)
MatchSentence(buf) == SubSeq(buf, 1, SentenceEnd(buf))

\* buffer[len(match.group(0)):]
MatchRest(buf) == SubSeq(buf, SkipSpaces(buf, SentenceEnd(buf) + 1), Len(buf))

\* str.strip()
Strip(text) ==
    LET keep == {i \in 1..Len(text) : ~IsSpace(text[i])}
    IN IF keep = {} THEN <<>>
       ELSE SubSeq(text, CHOOSE i \in keep : \A j \in keep : i <= j,
                         CHOOSE i \in keep : \A j \in keep : i >= j)

\* index of the first whitespace character of a text, or Len + 1
SkipWord(text) ==
    LET stops == {j \in 1..Len(text) : IsSpace(text[j])}
    IN IF stops = {} THEN Len(text) + 1 ELSE CHOOSE j \in stops : \A k \in stops : j <= k

\* str.split(): the words of a text
RECURSIVE Words(_)
Words(text) ==
    IF text = <<>> THEN <<>>
    ELSE IF IsSpace(text[1]) THEN Words(Tail(text))
    ELSE LET n == SkipWord(text)
         IN <<SubSeq(text, 1, n - 1)>> \o Words(SubSeq(text, n, Len(text)))

\* ' '.join(words)
RECURSIVE JoinWords(_)
JoinWords(words) ==
    IF words = <<>> THEN <<>>
    ELSE IF Len(words) = 1 THEN words[1]
    ELSE words[1] \o <<" ">> \o JoinWords(Tail(words))

\* speak, lines 977-980: ' '.join(words[:max(1, int(len(words) * fraction))])
WordPrefix(text, played, total) ==
    LET words == Words(text)
        words_spoken == (Len(words) * played) \div total
        n == IF words_spoken > 1 THEN words_spoken ELSE 1
    IN JoinWords(SubSeq(words, 1, IF n > Len(words) THEN Len(words) ELSE n))

\* samples played in one polling interval of play_interruptible:
\* check_interval (0.05 s) at the 24000 Hz of the synthesized audio
SamplesPerTick == 1200

\* len(audio) for an audio lasting the given number of polling intervals
AudioSamples(ticks) == ticks * SamplesPerTick

\* play_interruptible, lines 525-536: the value returned when the loop is left
\* at the given elapsed time: int(elapsed * sample_rate) after an interrupt,
\* len(audio) otherwise
SamplesPlayedMutant(elapsedTicks, totalTicks, interrupted) ==
    IF interrupted THEN (elapsedTicks + 1) * SamplesPerTick ELSE AudioSamples(totalTicks)
SamplesPlayed(elapsedTicks, totalTicks, interrupted) ==
    IF interrupted THEN elapsedTicks * SamplesPerTick ELSE AudioSamples(totalTicks)

\* int(len(sentence) * (samples_played / len(tts_audio)))
CharsSpoken(text, played, total) == (Len(text) * played) \div total

\* intended_response of the InterruptionEvent, line 1138
IntendedResponse(full, buf) == full \o buf

\* the text counted as spoken after the trailing buffer was played, line 1128
SpokenAfterFinal(spoken, buf, played, total) == spoken \o buf

\* self._last_interruption = None
NoEvent == [none |-> TRUE]

\* the trailing buffer has not been played
NoStep == [none |-> TRUE]

InterruptionEvent(intended, spoken, now) ==
    [intended_response |-> intended, spoken_up_to |-> spoken, user_interruption |-> <<>>,
     timestamp |-> now]

\* the transcript of the n-th cycle, when it is not empty
Transcript(n) == <<"u", n>>

\* no request was sent in the cycle
NoRequest == [none |-> TRUE]

\* _call_llm_stream, lines 716-731: the payload posted to /api/generate holds
\* the prompt and the system prompt, and no messages
StreamRequest(prompt) == [prompt |-> prompt, messages |-> <<>>]

\* lines 1026-1039: the note appended for a pending InterruptionEvent
InterruptionNote(ie) ==
    [role |-> "assistant", kind |-> "interruption_note",
     intended |-> ie.intended_response, heard |-> ie.spoken_up_to]

\* if text.strip(): transcribe returned a transcript that is not blank
\* (process_voice line 1042, _process_vad_audio line 686)
HasSpeechMutant(stt) == stt \in {"text", "empty"}
HasSpeech(stt) == stt = "text"

(***************************************************************************)
(* Lines 1025-1065: fold a pending interruption into history, transcribe,  *)
(* return on an empty transcript, else reset the locals and start the      *)
(* monitor.                                                                *)
(***************************************************************************)
PvBegin(stt) ==
    /\ pv_pc \in {"idle", "done"}
    /\ cycle < MaxCycles
    /\ cycle' = cycle + 1
    /\ conversation_history' =
          IF last_interruption # NoEvent
          THEN Append(conversation_history, InterruptionNote(last_interruption))
          ELSE conversation_history
    /\ last_interruption' = NoEvent
    /\ buffer' = <<>>
    /\ full_response' = <<>>
    /\ spoken_text' = <<>>
    /\ was_interrupted' = FALSE
    /\ sentence' = <<>>
    /\ audio_len' = 0
    /\ elapsed' = 0
    /\ nTokens' = 0
    /\ consumed' = <<>>
    /\ synth' = <<>>
    /\ plays' = [started |-> 0, completed |-> 0]
    /\ flagAtLastPlayEnd' = FALSE
    /\ finalStep' = NoStep
    /\ priorStats' = [context_used |-> context_used, total |-> total_tokens_session]
    /\ total_tokens_session' = total_tokens_session
    /\ context_used' = context_used
    /\ flagSeen' = NoStep
    /\ foldedEvent' = last_interruption
    /\ cycle_status' = IF stt = "error" THEN "error" ELSE IF HasSpeech(stt) THEN "running" ELSE "no_speech"
    /\ llm_outcome' = "none"
    /\ transcribed' = stt
    /\ priorHistory' = conversation_history
    /\ priorEvent' = last_interruption
    /\ llm_request' = IF HasSpeech(stt) THEN StreamRequest(Transcript(cycle + 1))
                                       ELSE NoRequest
    /\ lastPlay' = NoStep
    /\ lastCut' = <<>>
    /\ abortStep' = NoStep
    /\ earlyFlag' = FALSE
    /\ IF HasSpeech(stt)
       THEN /\ StartVadMonitor(cycle + 1)
            /\ is_speaking' = TRUE
            /\ pv_pc' = "fetch"
            /\ pv_error' = FALSE
       ELSE /\ pv_pc' = "done"
            /\ pv_error' = (stt = "error")
            /\ UNCHANGED <<vad_monitor_active, interrupt_requested, flagSetter,
                           monitors, vad_monitor_thread, is_speaking>>
    /\ UNCHANGED notVoice

(***************************************************************************)
(* Lines 1068-1087: the stream yields a token; check the flag, append the  *)
(* token, cut a sentence from the buffer if one is complete.               *)
(***************************************************************************)
PvToken(token) ==
    /\ pv_pc = "fetch"
    /\ nTokens < MaxTokens
    /\ nTokens' = nTokens + 1
    /\ consumed' = consumed \o token
    /\ IF interrupt_requested
       THEN /\ was_interrupted' = TRUE
            /\ pv_pc' = "after_loop"
            /\ UNCHANGED <<buffer, full_response, sentence>>
       ELSE /\ full_response' = full_response \o token
            /\ IF SentenceEnd(buffer \o token) # 0
               THEN /\ sentence' = MatchSentence(buffer \o token)
                    /\ buffer' = MatchRest(buffer \o token)
                    /\ pv_pc' = "sentence"
               ELSE /\ buffer' = buffer \o token
                    /\ UNCHANGED <<sentence, pv_pc>>
            /\ UNCHANGED was_interrupted
    /\ earlyFlag' = (earlyFlag \/ (interrupt_requested /\ synth = <<>>))
    /\ lastCut' = IF ~interrupt_requested /\ SentenceEnd(buffer \o token) # 0
                  THEN SubSeq(buffer \o token, SentenceEnd(buffer \o token) + 1,
                              Len(buffer \o token))
                  ELSE lastCut
    /\ flagSeen' = IF interrupt_requested
                 THEN [at |-> "token", synth |-> Len(synth), started |-> plays.started]
                 ELSE flagSeen
    /\ UNCHANGED <<cycle, pv_error, spoken_text, audio_len, elapsed,
                   last_interruption, conversation_history, synth, plays,
                   flagAtLastPlayEnd, finalStep, abortStep, lastPlay, llm_request,
                   priorEvent, priorHistory, transcribed, llm_outcome, cycle_status,
                   foldedEvent, context_used, total_tokens_session, priorStats>>
    /\ UNCHANGED <<vad_monitor_active, interrupt_requested, vad_monitor_thread,
                   is_speaking, monitors, flagSetter>>
    /\ UNCHANGED notVoice

\* the stream ends: the for loop is exhausted
PvStreamEnd ==
    /\ pv_pc = "fetch"
    /\ pv_pc' = "after_loop"
    /\ llm_outcome' = "ok"
    /\ UNCHANGED <<cycle, pv_error, buffer, full_response, spoken_text,
                   was_interrupted, sentence, audio_len, elapsed, nTokens,
                   last_interruption, conversation_history, consumed, synth, plays,
                   flagAtLastPlayEnd, finalStep, earlyFlag, abortStep, lastCut,
                   lastPlay, llm_request, priorEvent, priorHistory, transcribed,
                   cycle_status, foldedEvent, flagSeen, context_used,
                   total_tokens_session, priorStats>>
    /\ UNCHANGED <<vad_monitor_active, interrupt_requested, vad_monitor_thread,
                   is_speaking, monitors, flagSetter>>
    /\ UNCHANGED notVoice

\* where an exception raised inside the try block of lines 1066-1128 goes:
\* to the finally block of lines 1130-1133
AfterExceptionMutant == "done"
AfterException == "finally"

\* the request or the stream raises (timeout=60, connection error, bad JSON)
PvStreamError ==
    /\ pv_pc = "fetch"
    /\ pv_pc' = AfterException
    /\ pv_error' = TRUE
    /\ llm_outcome' = "raise"
    /\ cycle_status' = "error"
    /\ UNCHANGED <<cycle, buffer, full_response, spoken_text, was_interrupted,
                   sentence, audio_len, elapsed, nTokens, last_interruption,
                   conversation_history, consumed, synth, plays, flagAtLastPlayEnd,
                   finalStep, earlyFlag, abortStep, lastCut, lastPlay, llm_request,
                   priorEvent, priorHistory, transcribed, foldedEvent, flagSeen,
                   context_used, total_tokens_session, priorStats>>
    /\ UNCHANGED <<vad_monitor_active, interrupt_requested, vad_monitor_thread,
                   is_speaking, monitors, flagSetter>>
    /\ UNCHANGED notVoice

(***************************************************************************)
(* Lines 1089-1103: check the flag before speaking the sentence; else      *)
(* synthesize it and start play_interruptible.                             *)
(***************************************************************************)
PvSentence(ticks) ==
    /\ pv_pc = "sentence"
    /\ IF interrupt_requested
       THEN /\ was_interrupted' = TRUE
            /\ pv_pc' = "after_loop"
            /\ UNCHANGED <<synth, audio_len, elapsed, plays>>
       ELSE /\ synth' = Append(synth, [text |-> sentence, interrupted |-> was_interrupted])
            /\ audio_len' = ticks
            /\ elapsed' = 0
            /\ plays' = [plays EXCEPT !.started = @ + 1]
            /\ pv_pc' = "play"
            /\ UNCHANGED was_interrupted
    /\ earlyFlag' = (earlyFlag \/ (interrupt_requested /\ synth = <<>>))
    /\ flagSeen' = IF interrupt_requested
                 THEN [at |-> "sentence", synth |-> Len(synth), started |-> plays.started]
                 ELSE flagSeen
    /\ UNCHANGED <<cycle, pv_error, buffer, full_response, spoken_text, sentence,
                   nTokens, last_interruption, conversation_history, consumed,
                   flagAtLastPlayEnd, finalStep, abortStep, lastCut, lastPlay,
                   llm_request, priorEvent, priorHistory, transcribed, llm_outcome,
                   cycle_status, foldedEvent, context_used, total_tokens_session,
                   priorStats>>
    /\ UNCHANGED <<vad_monitor_active, interrupt_requested, vad_monitor_thread,
                   is_speaking, monitors, flagSetter>>
    /\ UNCHANGED notVoice

(***************************************************************************)
(* AudioIO.play_interruptible, lines 519-538, one pass of its loop, and    *)
(* lines 1104-1113 when it returns.                                        *)
(***************************************************************************)
PvPlayPoll ==
    /\ pv_pc = "play"
    /\ IF elapsed >= audio_len
       THEN \* played in full: samples_played = len(audio)
            /\ spoken_text' = spoken_text \o sentence \o <<" ">>
            /\ sentence' = <<>>
            /\ plays' = [plays EXCEPT !.completed = @ + 1]
            /\ flagAtLastPlayEnd' = interrupt_requested
            /\ pv_pc' = "fetch"
            /\ UNCHANGED <<elapsed, was_interrupted>>
       ELSE IF interrupt_requested
       THEN \* sd.stop(); samples_played = int(elapsed * sample_rate) < len(audio)
            /\ spoken_text' = spoken_text
                                 \o SubSeq(sentence, 1,
                                           CharsSpoken(sentence,
                                                       SamplesPlayed(elapsed, audio_len, TRUE),
                                                       AudioSamples(audio_len)))
            /\ was_interrupted' = TRUE
            /\ pv_pc' = "after_loop"
            /\ UNCHANGED <<elapsed, sentence, plays, flagAtLastPlayEnd>>
       ELSE \* time.sleep(check_interval)
            /\ elapsed' = elapsed + 1
            /\ UNCHANGED <<spoken_text, sentence, plays, flagAtLastPlayEnd,
                           was_interrupted, pv_pc>>
    /\ abortStep' = IF elapsed < audio_len /\ interrupt_requested
                    THEN [text |-> sentence, played |-> elapsed, len |-> audio_len,
                          spokenBefore |-> spoken_text, tokens |-> nTokens]
                    ELSE abortStep
    /\ lastPlay' = IF elapsed >= audio_len \/ interrupt_requested
                   THEN [len |-> AudioSamples(audio_len),
                         returned |-> SamplesPlayed(elapsed, audio_len,
                                                    elapsed < audio_len /\ interrupt_requested),
                         aborted |-> elapsed < audio_len /\ interrupt_requested,
                         elapsed |-> elapsed]
                   ELSE lastPlay
    /\ UNCHANGED <<cycle, pv_error, buffer, full_response, audio_len, nTokens,
                   last_interruption, conversation_history, consumed, synth,
                   finalStep, earlyFlag, lastCut, llm_request, priorEvent,
                   priorHistory, transcribed, llm_outcome, cycle_status, foldedEvent,
                   flagSeen, context_used, total_tokens_session, priorStats>>
    /\ UNCHANGED <<vad_monitor_active, interrupt_requested, vad_monitor_thread,
                   is_speaking, monitors, flagSetter>>
    /\ UNCHANGED notVoice

\* tts.synthesize or the audio device raises
PvSpeakError ==
    /\ pv_pc \in {"sentence", "play", "play_final"}
    /\ pv_pc' = AfterException
    /\ pv_error' = TRUE
    /\ cycle_status' = "error"
    /\ UNCHANGED <<cycle, buffer, full_response, spoken_text, was_interrupted,
                   sentence, audio_len, elapsed, nTokens, last_interruption,
                   conversation_history, consumed, synth, plays, flagAtLastPlayEnd,
                   finalStep, earlyFlag, abortStep, lastCut, lastPlay, llm_request,
                   priorEvent, priorHistory, transcribed, llm_outcome, foldedEvent,
                   flagSeen, context_used, total_tokens_session, priorStats>>
    /\ UNCHANGED <<vad_monitor_active, interrupt_requested, vad_monitor_thread,
                   is_speaking, monitors, flagSetter>>
    /\ UNCHANGED notVoice

\* line 1118: the test that guards the synthesis of the trailing buffer
SpeakRemainingMutant(interrupted, rest) == Strip(rest) # <<>>
SpeakRemaining(interrupted, rest) == ~interrupted /\ Strip(rest) # <<>>

(***************************************************************************)
(* Lines 1118-1125: after the loop, synthesize and play what is left in    *)
(* the buffer, unless interrupted or nothing but whitespace is left.       *)
(***************************************************************************)
PvAfterLoop(ticks) ==
    /\ pv_pc = "after_loop"
    /\ IF SpeakRemaining(was_interrupted, buffer)
       THEN /\ synth' = Append(synth, [text |-> buffer, interrupted |-> was_interrupted])
            /\ audio_len' = ticks
            /\ elapsed' = 0
            /\ plays' = [plays EXCEPT !.started = @ + 1]
            /\ finalStep' = [spokenBefore |-> spoken_text, len |-> ticks, played |-> 0]
            /\ pv_pc' = "play_final"
       ELSE /\ pv_pc' = "finally"
            /\ UNCHANGED <<synth, audio_len, elapsed, plays, finalStep>>
    /\ earlyFlag' = (earlyFlag \/ (interrupt_requested /\ synth = <<>>))
    /\ UNCHANGED <<cycle, pv_error, buffer, full_response, spoken_text,
                   was_interrupted, sentence, nTokens, last_interruption,
                   conversation_history, consumed, flagAtLastPlayEnd, abortStep,
                   lastCut, lastPlay, llm_request, priorEvent, priorHistory,
                   transcribed, llm_outcome, cycle_status, foldedEvent, flagSeen,
                   context_used, total_tokens_session, priorStats>>
    /\ UNCHANGED <<vad_monitor_active, interrupt_requested, vad_monitor_thread,
                   is_speaking, monitors, flagSetter>>
    /\ UNCHANGED notVoice

(***************************************************************************)
(* play_interruptible on the trailing buffer, one pass of its loop, and    *)
(* line 1128 when it returns: its result is not used.                      *)
(***************************************************************************)
PvPlayFinalPoll ==
    /\ pv_pc = "play_final"
    /\ IF elapsed >= audio_len \/ interrupt_requested
       THEN /\ spoken_text' = SpokenAfterFinal(spoken_text, buffer, elapsed, audio_len)
            /\ finalStep' = [finalStep EXCEPT !.played = elapsed]
            /\ plays' = IF elapsed >= audio_len
                        THEN [plays EXCEPT !.completed = @ + 1] ELSE plays
            /\ flagAtLastPlayEnd' = IF elapsed >= audio_len
                                    THEN interrupt_requested ELSE flagAtLastPlayEnd
            /\ pv_pc' = "finally"
            /\ UNCHANGED elapsed
       ELSE /\ elapsed' = elapsed + 1
            /\ UNCHANGED <<spoken_text, finalStep, plays, flagAtLastPlayEnd, pv_pc>>
    /\ lastPlay' = IF elapsed >= audio_len \/ interrupt_requested
                   THEN [len |-> AudioSamples(audio_len),
                         returned |-> SamplesPlayed(elapsed, audio_len,
                                                    elapsed < audio_len /\ interrupt_requested),
                         aborted |-> elapsed < audio_len /\ interrupt_requested,
                         elapsed |-> elapsed]
                   ELSE lastPlay
    /\ UNCHANGED <<cycle, pv_error, buffer, full_response, was_interrupted, sentence,
                   audio_len, nTokens, last_interruption, conversation_history,
                   consumed, synth, earlyFlag, abortStep, lastCut, llm_request,
                   priorEvent, priorHistory, transcribed, llm_outcome, cycle_status,
                   foldedEvent, flagSeen, context_used, total_tokens_session,
                   priorStats>>
    /\ UNCHANGED <<vad_monitor_active, interrupt_requested, vad_monitor_thread,
                   is_speaking, monitors, flagSetter>>
    /\ UNCHANGED notVoice

(***************************************************************************)
(* Lines 1130-1133: the finally block, up to the join.                     *)
(***************************************************************************)
PvFinally ==
    /\ pv_pc = "finally"
    /\ is_speaking' = FALSE
    /\ StopVadMonitorBegin
    /\ pv_pc' = "joining"
    /\ UNCHANGED <<interrupt_requested, vad_monitor_thread, monitors, flagSetter>>
    /\ UNCHANGED <<cycle, pv_error, buffer, full_response, spoken_text,
                   was_interrupted, sentence, audio_len, elapsed, nTokens,
                   last_interruption, conversation_history, consumed, synth, plays,
                   flagAtLastPlayEnd, finalStep, earlyFlag, abortStep, lastCut,
                   lastPlay, llm_request, priorEvent, priorHistory, transcribed,
                   llm_outcome, cycle_status, foldedEvent, flagSeen, context_used,
                   total_tokens_session, priorStats>>
    /\ UNCHANGED notVoice

(***************************************************************************)
(* The join returns; then lines 1135-1148, unless an exception is          *)
(* propagating: store the InterruptionEvent of an interrupted cycle.       *)
(***************************************************************************)
PvJoin(timedOut) ==
    /\ pv_pc = "joining"
    /\ JoinReturns(timedOut)
    /\ last_interruption' =
          IF was_interrupted /\ ~pv_error
          THEN InterruptionEvent(IntendedResponse(full_response, buffer), Strip(spoken_text),
                                 cycle)
          ELSE last_interruption
    /\ pv_pc' = "done"
    /\ UNCHANGED <<vad_monitor_active, interrupt_requested, is_speaking, monitors,
                   flagSetter>>
    /\ cycle_status' = IF cycle_status = "running" THEN "done" ELSE cycle_status
    /\ UNCHANGED <<cycle, pv_error, buffer, full_response, spoken_text,
                   was_interrupted, sentence, audio_len, elapsed, nTokens,
                   conversation_history, consumed, synth, plays, flagAtLastPlayEnd,
                   finalStep, earlyFlag, abortStep, lastCut, lastPlay, llm_request,
                   priorEvent, priorHistory, transcribed, llm_outcome, foldedEvent,
                   flagSeen, context_used, total_tokens_session, priorStats>>
    /\ UNCHANGED notVoice

NextVoice ==
    \* the first cycle of a run, with every input; SpecCycles runs cycles in a row
    \/ \E stt \in {"text", "empty", "error"} : cycle = 0 /\ PvBegin(stt)
    \/ \E token \in Tokens : PvToken(token)
    \/ PvStreamEnd
    \/ PvStreamError
    \/ \E ticks \in 1..MaxAudioTicks : PvSentence(ticks)
    \/ PvPlayPoll
    \/ PvSpeakError
    \/ \E ticks \in 1..MaxAudioTicks : PvAfterLoop(ticks)
    \/ PvPlayFinalPoll
    \/ PvFinally
    \/ \E timedOut \in BOOLEAN : PvJoin(timedOut)
    \/ \E m \in MonIds : MonitorCheck(m)
    \/ \E m \in MonIds, prob \in MonProbs : MonitorFrame(m, prob)
    \/ \E m \in MonIds : MonitorEof(m)

(***************************************************************************)
(* The GUI turn: IrisGUI._process_vad_audio, lines 685-728, with           *)
(* IrisLocal._call_llm and IrisLocal.speak.                                *)
(***************************************************************************)
\* self._max_history_turns
max_history_turns == 10

\* how the request of _call_llm ends: a response, an exception (timeout,
\* connection, invalid JSON), or an HTTP error with a JSON error body
\* "tool_ok" and "tool_raise": the response asks for tool calls, and the
\* follow-up request of _handle_tool_calls returns a response or raises
LlmResults == {"ok", "raise", "http_error", "tool_ok", "tool_raise"}

\* an exception leaves _call_llm
Raised(llmResult) == llmResult \in {"raise", "tool_raise"}

\* prompt_eval_count and eval_count of a response
Usages == {[prompt |-> 1, completion |-> 1], [prompt |-> 2, completion |-> 1]}
\* the counts of every response of a long session
SessionUsage == [prompt |-> 1, completion |-> 1]

\* result.get("prompt_eval_count", 0) and result.get("eval_count", 0): an
\* error body has neither
CountsOf(llmResult, usage) ==
    IF llmResult = "http_error" THEN [prompt |-> 0, completion |-> 0] ELSE usage

\* _call_llm, lines 844-848, after _handle_tool_calls, lines 914-917: the two
\* counters after the request; an exception is raised before any of them
StatsAfter(used, total, llmResult, usage, follow) ==
    IF Raised(llmResult) THEN [context_used |-> used, total |-> total]
    ELSE LET first == CountsOf(llmResult, usage)
             afterTools == IF llmResult = "tool_ok"
                           THEN total + follow.prompt + follow.completion
                           ELSE total
         IN [context_used |-> first.prompt,
             total |-> afterTools + first.prompt + first.completion]

\* the responses _call_llm may return (message content, stripped)
Responses == { <<"a", ".">>, <<"a", ".", " ", "a", " ", "a", ".">> }

\* a history message {"role": role, "content": content}
Message(role, content) == [role |-> role, kind |-> "text", content |-> content]

\* add_to_history, lines 742-748
AddToHistory(history, message) ==
    LET all == Append(history, message)
        max_messages == max_history_turns * 2
    IN IF Len(all) > max_messages
       THEN SubSeq(all, Len(all) - max_messages + 1, Len(all))
       ELSE all

\* _call_llm, lines 777-803: the messages of the request, after the system
\* prompt: the history and the current user message
ChatRequest(history, prompt) ==
    [prompt |-> prompt, messages |-> Append(history, Message("user", prompt))]

\* speak, line 980: the em dash appended to a partly spoken sentence
Dash == "-"

\* speak, line 953: re.split(r'(?<=[.!?])\s+', text)
RECURSIVE SplitSentences(_)
SplitSentences(text) ==
    LET cuts == {j \in 2..Len(text) : IsSpace(text[j]) /\ IsTerminal(text[j - 1])}
    IN IF cuts = {} THEN <<text>>
       ELSE LET j == CHOOSE c \in cuts : \A k \in cuts : c <= k
            IN <<SubSeq(text, 1, j - 1)>>
                  \o SplitSentences(SubSeq(text, SkipSpaces(text, j), Len(text)))

(***************************************************************************)
(* _process_vad_audio, lines 685-709: transcribe; on a transcript call     *)
(* _call_llm, which folds a pending interruption into the history, sends   *)
(* the request and adds the user and assistant turns; then start the       *)
(* monitor.  A pending event is given the transcript as user_interruption  *)
(* (lines 688-690) before _call_llm folds it.  The lock is taken at line   *)
(* 673: cycles run one after another, so it is free.  The branches that    *)
(* end the turn run the finally block.  response and the locals of speak   *)
(* are new in every cycle.                                                 *)
(***************************************************************************)
GuiBegin(stt, llmResult, llm, usage, follow) ==
    /\ mode = "gui"
    /\ gui_pc \in {"idle", "done"}
    /\ Acquire(processing_lock)
    /\ cycle < MaxCycles
    /\ cycle' = cycle + 1
    /\ priorEvent' = last_interruption
    /\ priorHistory' = conversation_history
    /\ synth' = <<>>
    /\ plays' = [started |-> 0, completed |-> 0]
    /\ LET prompt == Transcript(cycle + 1)
           \* an HTTP error is not checked (no raise_for_status): the body has
           \* no "message", so assistant_response is "" (lines 829-843)
           answer == IF llmResult = "http_error" THEN <<>> ELSE llm
           folded == IF last_interruption # NoEvent
                     THEN Append(conversation_history, InterruptionNote(last_interruption))
                     ELSE conversation_history
       IN IF ~HasSpeech(stt)
          THEN \* no transcript, or transcribe raised: _call_llm is not reached
               /\ gui_pc' = "done"
               /\ is_processing' = FALSE
               /\ processing_lock' =
                     Release(cycle + 1, IF stt = "error" THEN "error" ELSE "no_speech")
               /\ llm_request' = NoRequest
               /\ gui_response' = <<>>
               /\ gui_sentences' = <<>>
               /\ gui_spoken' = <<>>
               /\ UNCHANGED <<last_interruption, conversation_history,
                              vad_monitor_active, interrupt_requested, flagSetter,
                              monitors, vad_monitor_thread, is_speaking>>
          ELSE /\ last_interruption' = NoEvent
               /\ llm_request' = ChatRequest(folded, prompt)
               /\ IF Raised(llmResult)
                  THEN \* requests.post timed out or raised, or response.json() raised,
                       \* in _call_llm or in the follow-up of _handle_tool_calls
                       /\ conversation_history' = folded
                       /\ gui_pc' = "done"
                       /\ is_processing' = FALSE
                       /\ processing_lock' = Release(cycle + 1, "error")
                       /\ gui_response' = <<>>
                       /\ gui_sentences' = <<>>
                       /\ gui_spoken' = <<>>
                       /\ UNCHANGED <<vad_monitor_active, interrupt_requested,
                                      flagSetter, monitors, vad_monitor_thread,
                                      is_speaking>>
                  ELSE /\ conversation_history' =
                             AddToHistory(AddToHistory(folded, Message("user", prompt)),
                                          Message("assistant", answer))
                       /\ gui_response' = answer
                       /\ gui_sentences' = SplitSentences(answer)
                       /\ gui_spoken' = <<>>
                       /\ StartVadMonitor(cycle + 1)
                       /\ is_speaking' = TRUE
                       /\ gui_pc' = "speak"
                       /\ is_processing' = TRUE
                       /\ processing_lock' = cycle + 1
    /\ pipeline_status' = IF HasSpeech(stt) /\ ~Raised(llmResult)
                          THEN [stt |-> "done", llm |-> "done", tts |-> "active"]
                          ELSE IdleStatus
    /\ transcribed' = stt
    /\ llm_outcome' = IF HasSpeech(stt) THEN llmResult ELSE "none"
    /\ cycle_status' = IF stt = "error" THEN "error"
                     ELSE IF ~HasSpeech(stt) THEN "no_speech"
                     ELSE IF Raised(llmResult) THEN "error" ELSE "running"
    /\ foldedEvent' = IF HasSpeech(stt) /\ last_interruption # NoEvent
                     THEN [last_interruption EXCEPT
                             !.user_interruption = Transcript(cycle + 1)]
                     ELSE NoEvent
    /\ flagSeen' = NoStep
    /\ context_used' = IF HasSpeech(stt)
                     THEN StatsAfter(context_used, total_tokens_session, llmResult,
                                     usage, follow).context_used
                     ELSE context_used
    /\ total_tokens_session' = IF HasSpeech(stt)
                     THEN StatsAfter(context_used, total_tokens_session, llmResult,
                                     usage, follow).total
                     ELSE total_tokens_session
    /\ priorStats' = [context_used |-> context_used, total |-> total_tokens_session]
    /\ UNCHANGED <<pv_pc, pv_error, buffer, full_response, spoken_text,
                   was_interrupted, sentence, audio_len, elapsed, nTokens, consumed,
                   flagAtLastPlayEnd, finalStep, earlyFlag, abortStep, lastCut,
                   lastPlay>>
    /\ UNCHANGED notGuiLock

(***************************************************************************)
(* speak, lines 955-966: the next sentence of the for loop.                *)
(***************************************************************************)
GuiSpeakNext(ticks) ==
    /\ gui_pc = "speak"
    /\ IF gui_sentences = <<>>
       THEN /\ gui_pc' = "after"
            /\ UNCHANGED <<gui_sentences, sentence, audio_len, elapsed, synth, plays>>
       ELSE IF Strip(Head(gui_sentences)) = <<>>
       THEN /\ gui_sentences' = Tail(gui_sentences)
            /\ UNCHANGED <<gui_pc, sentence, audio_len, elapsed, synth, plays>>
       ELSE IF interrupt_requested
       THEN /\ gui_pc' = "after"
            /\ UNCHANGED <<gui_sentences, sentence, audio_len, elapsed, synth, plays>>
       ELSE /\ sentence' = Head(gui_sentences)
            /\ gui_sentences' = Tail(gui_sentences)
            /\ audio_len' = ticks
            /\ elapsed' = 0
            /\ gui_pc' = "play"
            /\ synth' = Append(synth, Head(gui_sentences))
            /\ plays' = [plays EXCEPT !.started = @ + 1]
    /\ flagSeen' = IF gui_sentences # <<>> /\ Strip(Head(gui_sentences)) # <<>>
                    /\ interrupt_requested
                 THEN [at |-> "speak", synth |-> Len(synth), started |-> plays.started]
                 ELSE flagSeen
    /\ UNCHANGED <<cycle, pv_pc, pv_error, buffer, full_response, spoken_text,
                   was_interrupted, nTokens, last_interruption, conversation_history,
                   consumed, flagAtLastPlayEnd, finalStep, earlyFlag, abortStep,
                   lastCut, lastPlay, llm_request, priorEvent, vad_monitor_active,
                   interrupt_requested, vad_monitor_thread, is_speaking, monitors,
                   flagSetter, gui_response, gui_spoken, priorHistory, transcribed,
                   llm_outcome, cycle_status, foldedEvent, context_used,
                   total_tokens_session, priorStats>>
    /\ UNCHANGED notGui

(***************************************************************************)
(* play_interruptible called by speak, one pass of its loop, and lines     *)
(* 973-985 when it returns.                                                *)
(***************************************************************************)
GuiPlayPoll ==
    /\ gui_pc = "play"
    /\ IF elapsed >= audio_len
       THEN /\ gui_spoken' = Append(gui_spoken, sentence)
            /\ gui_pc' = "speak"
            /\ plays' = [plays EXCEPT !.completed = @ + 1]
            /\ UNCHANGED elapsed
       ELSE IF interrupt_requested
       THEN /\ gui_spoken' =
                  Append(gui_spoken,
                         WordPrefix(sentence, SamplesPlayed(elapsed, audio_len, TRUE),
                                    AudioSamples(audio_len)) \o <<Dash>>)
            /\ gui_pc' = "after"
            /\ UNCHANGED <<elapsed, plays>>
       ELSE /\ elapsed' = elapsed + 1
            /\ UNCHANGED <<gui_spoken, gui_pc, plays>>
    /\ UNCHANGED <<cycle, pv_pc, pv_error, buffer, full_response, spoken_text,
                   was_interrupted, sentence, audio_len, nTokens, last_interruption,
                   conversation_history, consumed, synth, flagAtLastPlayEnd,
                   finalStep, earlyFlag, abortStep, lastCut, lastPlay, llm_request,
                   priorEvent, vad_monitor_active, interrupt_requested,
                   vad_monitor_thread, is_speaking, monitors, flagSetter,
                   gui_response, gui_sentences, priorHistory, transcribed,
                   llm_outcome, cycle_status, foldedEvent, flagSeen, context_used,
                   total_tokens_session, priorStats>>
    /\ UNCHANGED notGui

(***************************************************************************)
(* speak returns ' '.join(spoken_text); _process_vad_audio, lines 713-728: *)
(* record an interruption, then the finally block up to the join.          *)
(***************************************************************************)
GuiAfterSpeak ==
    /\ gui_pc = "after"
    /\ last_interruption' =
          IF interrupt_requested /\ JoinWords(gui_spoken) # gui_response
          THEN InterruptionEvent(gui_response, JoinWords(gui_spoken), cycle)
          ELSE last_interruption
    /\ is_speaking' = FALSE
    /\ StopVadMonitorBegin
    /\ gui_pc' = "joining"
    /\ UNCHANGED <<cycle, pv_pc, pv_error, buffer, full_response, spoken_text,
                   was_interrupted, sentence, audio_len, elapsed, nTokens,
                   conversation_history, consumed, synth, plays, flagAtLastPlayEnd,
                   finalStep, earlyFlag, abortStep, lastCut, lastPlay, llm_request,
                   priorEvent, interrupt_requested, vad_monitor_thread, monitors,
                   flagSetter, gui_response, gui_sentences, gui_spoken, priorHistory,
                   transcribed, llm_outcome, cycle_status, foldedEvent, flagSeen,
                   context_used, total_tokens_session, priorStats>>
    /\ UNCHANGED notGui

\* tts.synthesize or the audio device raises inside speak: the finally block
GuiSpeakError ==
    /\ gui_pc \in {"speak", "play"}
    /\ is_speaking' = FALSE
    /\ StopVadMonitorBegin
    /\ gui_pc' = "joining"
    /\ cycle_status' = "error"
    /\ UNCHANGED <<cycle, pv_pc, pv_error, buffer, full_response, spoken_text,
                   was_interrupted, sentence, audio_len, elapsed, nTokens,
                   last_interruption, conversation_history, consumed, synth, plays,
                   flagAtLastPlayEnd, finalStep, earlyFlag, abortStep, lastCut,
                   lastPlay, llm_request, priorEvent, interrupt_requested,
                   vad_monitor_thread, monitors, flagSetter, gui_response,
                   gui_sentences, gui_spoken, priorHistory, transcribed, llm_outcome,
                   foldedEvent, flagSeen, context_used, total_tokens_session,
                   priorStats>>
    /\ UNCHANGED notGui

\* the join of _stop_vad_monitor returns; the finally block of
\* _process_vad_audio, lines 737-740, ends the turn
GuiJoin(timedOut) ==
    /\ gui_pc = "joining"
    /\ JoinReturns(timedOut)
    /\ gui_pc' = "done"
    /\ is_processing' = FALSE
    /\ pipeline_status' = IdleStatus
    /\ processing_lock' = Release(cycle, "done")
    /\ cycle_status' = IF cycle_status = "running" THEN "done" ELSE cycle_status
    /\ UNCHANGED <<cycle, pv_pc, pv_error, buffer, full_response, spoken_text,
                   was_interrupted, sentence, audio_len, elapsed, nTokens,
                   last_interruption, conversation_history, consumed, synth, plays,
                   flagAtLastPlayEnd, finalStep, earlyFlag, abortStep, lastCut,
                   lastPlay, llm_request, priorEvent, vad_monitor_active,
                   interrupt_requested, is_speaking, monitors, flagSetter,
                   gui_response, gui_sentences, gui_spoken, priorHistory,
                   transcribed, llm_outcome, foldedEvent, flagSeen, context_used,
                   total_tokens_session, priorStats>>
    /\ UNCHANGED notGuiLock

\* tokens, frames and audio lengths of the cycles run in a row; the responses
\* carry no token counts and ask for no tool call
CycleLlmResults == {"ok", "raise", "http_error"}
NoUsage == [prompt |-> 0, completion |-> 0]
CycleTokens == { <<>>, <<"a", ".", " ", "a">> }
CycleProbs == {8}

NextCycles ==
    \/ \E stt \in {"text", "empty", "error"} : mode = "cli" /\ PvBegin(stt)
    \/ \E token \in CycleTokens : PvToken(token)
    \/ PvStreamEnd
    \/ PvStreamError
    \/ PvSentence(1)
    \/ PvPlayPoll
    \/ PvAfterLoop(1)
    \/ PvPlayFinalPoll
    \/ PvFinally
    \/ \E timedOut \in BOOLEAN : PvJoin(timedOut)
    \/ \E stt \in {"text", "empty", "error"}, llmResult \in CycleLlmResults,
          llm \in Responses :
          GuiBegin(stt, llmResult, llm, NoUsage, NoUsage)
    \/ GuiSpeakNext(1)
    \/ GuiPlayPoll
    \/ GuiAfterSpeak
    \/ GuiSpeakError
    \/ \E timedOut \in BOOLEAN : GuiJoin(timedOut)
    \/ \E m \in MonIds : MonitorCheck(m)
    \/ \E m \in MonIds, prob \in CycleProbs : MonitorFrame(m, prob)
    \/ \E m \in MonIds : MonitorEof(m)

(***************************************************************************)
(* The token counters: GUI cycles in a row whose responses carry token     *)
(* counts and may ask for tool calls.                                      *)
(***************************************************************************)
NextStats ==
    \/ \E stt \in {"text", "empty", "error"}, llmResult \in LlmResults, llm \in Responses,
          usage \in Usages, follow \in Usages :
          GuiBegin(stt, llmResult, llm, usage, follow)
    \/ GuiSpeakNext(1)
    \/ GuiPlayPoll
    \/ GuiAfterSpeak
    \/ GuiSpeakError
    \/ \E timedOut \in BOOLEAN : GuiJoin(timedOut)
    \/ \E m \in MonIds : MonitorCheck(m)
    \/ \E m \in MonIds, prob \in CycleProbs : MonitorFrame(m, prob)
    \/ \E m \in MonIds : MonitorEof(m)

(***************************************************************************)
(* The history over a long session: IrisLocal._call_llm as a whole         *)
(* (lines 765-857), the head of process_voice (lines 1025-1046) and the    *)
(* recording of an interruption, without the playback in between.          *)
(***************************************************************************)
\* cycles of a session long enough to fill the history
MaxSessionCycles == 11

\* _call_llm(text), called by _process_vad_audio on a transcript: fold a
\* pending interruption into the history, compose the request, and on a
\* response add the user and the assistant turn
SessionCallLlm(llmOk, llm) ==
    /\ mode = "gui"
    /\ cycle < MaxSessionCycles
    /\ cycle' = cycle + 1
    /\ priorEvent' = last_interruption
    /\ priorHistory' = conversation_history
    /\ LET prompt == Transcript(cycle + 1)
           folded == IF last_interruption # NoEvent
                     THEN Append(conversation_history, InterruptionNote(last_interruption))
                     ELSE conversation_history
       IN /\ last_interruption' = NoEvent
          /\ llm_request' = ChatRequest(folded, prompt)
          /\ IF llmOk
             THEN /\ conversation_history' =
                        AddToHistory(AddToHistory(folded, Message("user", prompt)),
                                     Message("assistant", llm))
                  /\ gui_response' = llm
             ELSE /\ conversation_history' = folded
                  /\ gui_response' = <<>>
    /\ transcribed' = "text"
    /\ llm_outcome' = IF llmOk THEN "ok" ELSE "raise"
    /\ cycle_status' = IF llmOk THEN "done" ELSE "error"
    /\ foldedEvent' = IF last_interruption # NoEvent
                     THEN [last_interruption EXCEPT
                             !.user_interruption = Transcript(cycle + 1)]
                     ELSE NoEvent
    /\ context_used' = StatsAfter(context_used, total_tokens_session,
                                   IF llmOk THEN "ok" ELSE "raise",
                                   SessionUsage, SessionUsage).context_used
    /\ total_tokens_session' = StatsAfter(context_used, total_tokens_session,
                                   IF llmOk THEN "ok" ELSE "raise",
                                   SessionUsage, SessionUsage).total
    /\ priorStats' = [context_used |-> context_used, total |-> total_tokens_session]
    /\ UNCHANGED <<pv_pc, pv_error, buffer, full_response, spoken_text,
                   was_interrupted, sentence, audio_len, elapsed, nTokens, consumed,
                   synth, plays, flagAtLastPlayEnd, finalStep, earlyFlag, abortStep,
                   lastCut, lastPlay, gui_pc, gui_sentences, gui_spoken, flagSeen>>
    /\ UNCHANGED <<segVars, turnVars, monVars, audioVars, listenVars, lifeVars>>

\* process_voice up to its request: fold a pending interruption into the
\* history (lines 1025-1039), transcribe, stream the request
SessionProcessVoice ==
    /\ mode = "cli"
    /\ cycle < MaxSessionCycles
    /\ cycle' = cycle + 1
    /\ priorEvent' = last_interruption
    /\ priorHistory' = conversation_history
    /\ conversation_history' =
          IF last_interruption # NoEvent
          THEN Append(conversation_history, InterruptionNote(last_interruption))
          ELSE conversation_history
    /\ last_interruption' = NoEvent
    /\ llm_request' = StreamRequest(Transcript(cycle + 1))
    /\ gui_response' = <<"a", ".">>
    /\ transcribed' = "text"
    /\ llm_outcome' = "ok"
    /\ cycle_status' = "done"
    /\ foldedEvent' = last_interruption
    /\ priorStats' = [context_used |-> context_used, total |-> total_tokens_session]
    /\ UNCHANGED <<pv_pc, pv_error, buffer, full_response, spoken_text,
                   was_interrupted, sentence, audio_len, elapsed, nTokens, consumed,
                   synth, plays, flagAtLastPlayEnd, finalStep, earlyFlag, abortStep,
                   lastCut, lastPlay, gui_pc, gui_sentences, gui_spoken, flagSeen,
                   context_used, total_tokens_session>>
    /\ UNCHANGED <<segVars, turnVars, monVars, audioVars, listenVars, lifeVars>>

\* the playback of the answer is interrupted before anything was heard:
\* iris_gui.py lines 713-722, iris_local.py lines 1136-1142
SessionInterrupted ==
    /\ cycle > 0
    /\ gui_response # <<>>
    /\ last_interruption = NoEvent
    /\ last_interruption' = InterruptionEvent(gui_response, <<>>, cycle)
    /\ UNCHANGED <<cycle, pv_pc, pv_error, buffer, full_response, spoken_text,
                   was_interrupted, sentence, audio_len, elapsed, nTokens,
                   conversation_history, consumed, synth, plays, flagAtLastPlayEnd,
                   finalStep, earlyFlag, abortStep, lastCut, lastPlay, llm_request,
                   priorEvent, priorHistory, gui_pc, gui_response, gui_sentences,
                   gui_spoken, transcribed, llm_outcome, cycle_status, foldedEvent,
                   flagSeen, context_used, total_tokens_session, priorStats>>
    /\ UNCHANGED <<segVars, turnVars, monVars, audioVars, listenVars, lifeVars>>

(***************************************************************************)
(* warmup (lines 610-644) and clear_history (lines 750-753) next to the    *)
(* cycles of a session.                                                    *)
(***************************************************************************)
\* cycles of a session with warmup and clear_history
MaxLifeCycles == 3

\* the prompt warmup sends, line 638
WarmupPrompt == <<"Hello", 0>>

\* warmup, called once after construction (main line 1497, IrisGUI
\* ._create_iris line 176): its last step is _call_llm("Hello", stream=False),
\* the same _call_llm a cycle uses; if the request raises, so does warmup,
\* and _warmed_up stays False
Warmup(llmOk, llm) ==
    /\ ~warmed_up
    /\ cycle = 0
    /\ LET folded == IF last_interruption # NoEvent
                     THEN Append(conversation_history, InterruptionNote(last_interruption))
                     ELSE conversation_history
       IN /\ last_interruption' = NoEvent
          /\ llm_request' = ChatRequest(folded, WarmupPrompt)
          /\ conversation_history' =
                IF llmOk
                THEN AddToHistory(AddToHistory(folded, Message("user", WarmupPrompt)),
                                  Message("assistant", llm))
                ELSE folded
    /\ llm_outcome' = IF llmOk THEN "ok" ELSE "raise"
    /\ context_used' = StatsAfter(context_used, total_tokens_session,
                                   IF llmOk THEN "ok" ELSE "raise",
                                   SessionUsage, SessionUsage).context_used
    /\ total_tokens_session' = StatsAfter(context_used, total_tokens_session,
                                   IF llmOk THEN "ok" ELSE "raise",
                                   SessionUsage, SessionUsage).total
    /\ warmed_up' = llmOk
    /\ UNCHANGED pendingAtClear
    /\ UNCHANGED <<cycle, pv_pc, pv_error, buffer, full_response,
                   spoken_text, was_interrupted, sentence, audio_len,
                   elapsed, nTokens, consumed, synth, plays,
                   flagAtLastPlayEnd, finalStep, earlyFlag, abortStep,
                   lastCut, lastPlay, priorEvent, priorHistory, transcribed,
                   cycle_status, foldedEvent, flagSeen, priorStats, gui_pc,
                   gui_response, gui_sentences, gui_spoken>>
    /\ UNCHANGED <<segVars, turnVars, monVars, audioVars, listenVars>>

\* clear_history
ClearHistory ==
    /\ conversation_history' = <<>>
    /\ total_tokens_session' = 0
    /\ pendingAtClear' = last_interruption
    /\ UNCHANGED warmed_up
    /\ UNCHANGED <<cycle, pv_pc, pv_error, buffer, full_response,
                   spoken_text, was_interrupted, sentence, audio_len,
                   elapsed, nTokens, last_interruption, consumed, synth,
                   plays, flagAtLastPlayEnd, finalStep, earlyFlag, abortStep,
                   lastCut, lastPlay, llm_request, priorEvent, priorHistory,
                   transcribed, llm_outcome, cycle_status, foldedEvent,
                   flagSeen, context_used, priorStats, gui_pc, gui_response,
                   gui_sentences, gui_spoken>>
    /\ UNCHANGED <<segVars, turnVars, monVars, audioVars, listenVars>>

NextLife ==
    \/ \E llmOk \in BOOLEAN : Warmup(llmOk, <<"a", ".">>)
    \/ ClearHistory
    \/ cycle < MaxLifeCycles /\ \E llmOk \in BOOLEAN : SessionCallLlm(llmOk, <<"a", ".">>)
    \/ cycle < MaxLifeCycles /\ SessionProcessVoice
    \/ SessionInterrupted

NextSession ==
    \/ \E llmOk \in BOOLEAN : SessionCallLlm(llmOk, <<"a", ".">>)
    \/ SessionProcessVoice
    \/ SessionInterrupted

(***************************************************************************)
(* The two capture actors with a VAD that may raise: _vad_loop and the     *)
(* monitor of a turn.                                                      *)
(***************************************************************************)
\* chunks the capture loop reads while the monitors are watched
ActorChunks == 3

NextActors ==
    \/ \E prob \in SegProbs : pos < ActorChunks /\ SegmentChunk(prob)
    \/ pos < ActorChunks /\ SegmentChunkRaises
    \/ StopVadListening
    \/ StartVadListening
    \/ TurnStart
    \/ TurnCheckInterrupt
    \/ TurnStop
    \/ \E timedOut \in BOOLEAN : TurnJoin(timedOut)
    \/ \E m \in MonIds : MonitorCheck(m)
    \/ \E m \in MonIds : MonitorFrame(m, 8)
    \/ \E m \in MonIds : MonitorRaises(m)
    \/ \E m \in MonIds : MonitorEof(m)

(***************************************************************************)
(* AudioIO: __init__ (lines 288-299), _should_use_ffmpeg (302-346),        *)
(* record_until_release (410-451), _record_with_ffmpeg (352-403) and       *)
(* stop_recording (453-455).                                               *)
(* audio_io.pc: "unbuilt" | "ready" | "starting" (the capture thread is     *)
(* started and has not yet run line 419) | "ffmpeg" | "sounddevice" |      *)
(* "returned" | "raised" (an exception left record_until_release).         *)
(* device: ok (it can be opened and delivers audio), configured            *)
(* (config.input_device is set), fallback (ffmpeg is installed and         *)
(* PipeWire runs), silent (sounddevice captures only silence from it).     *)
(***************************************************************************)
\* calls of record_until_release on one AudioIO
MaxRecordings == 2
\* chunks the device delivers during one recording
MaxRecChunks == 3

NewAudioIO == [pc |-> "unbuilt", use_ffmpeg |-> FALSE, recording |-> FALSE,
               chunks |-> 0, result |-> 0, calls |-> 0, brokenAtStart |-> FALSE,
               \* recorded for the claims: the backend chosen by __init__, and
               \* whether a probe capture at that time gives silence
               chosen |-> FALSE, probeSilent |-> FALSE,
               \* recorded for the claims: stop_recording was called for the
               \* recording whose thread was started last
               stopped |-> FALSE]

WorkingDevice == [ok |-> TRUE, configured |-> FALSE, fallback |-> FALSE, silent |-> FALSE]

Devices == [ok : BOOLEAN, configured : BOOLEAN, fallback : BOOLEAN, silent : BOOLEAN]

\* a probe capture on the device gives a peak at or below the silence floor
\* (a probe that cannot capture at all is counted as silent)
ProbeSilent(dev) == dev.silent \/ ~dev.ok

\* _should_use_ffmpeg: ffmpeg and PipeWire are there, and the sounddevice
\* test capture raised or recorded silence
ShouldUseFfmpeg(dev) == dev.fallback /\ (~dev.ok \/ dev.silent)

\* AudioIO.__init__
AudioInit ==
    /\ audio_io.pc = "unbuilt"
    /\ audio_io' = [audio_io EXCEPT
                      !.pc = "ready",
                      !.use_ffmpeg = IF device.configured THEN FALSE
                                     ELSE ShouldUseFfmpeg(device),
                      !.chosen = IF device.configured THEN FALSE
                                 ELSE ShouldUseFfmpeg(device),
                      !.probeSilent = ProbeSilent(device)]
    /\ UNCHANGED device
    /\ UNCHANGED notAudio

\* main, lines 1486-1489: the --ffmpeg option sets the flag of the AudioIO
\* just built, before anything is recorded
ForceFfmpeg ==
    /\ audio_io.pc = "ready"
    /\ audio_io.calls = 0
    /\ ~audio_io.use_ffmpeg
    /\ audio_io' = [audio_io EXCEPT !.use_ffmpeg = TRUE]
    /\ UNCHANGED device
    /\ UNCHANGED notAudio

\* record_until_release is called: lines 419-424 start ffmpeg, lines 438-445
\* open the sounddevice InputStream, which raises PortAudioError when the
\* device cannot be opened; nothing catches it
RecordStart ==
    /\ audio_io.pc \in {"ready", "returned"}
    /\ audio_io.calls < MaxRecordings
    /\ audio_io' = [audio_io EXCEPT
                      !.recording = TRUE,
                      !.chunks = 0,
                      !.calls = @ + 1,
                      !.brokenAtStart = ~device.ok,
                      !.pc = IF audio_io.use_ffmpeg THEN "ffmpeg"
                             ELSE IF device.ok THEN "sounddevice"
                             ELSE "raised"]
    /\ UNCHANGED device
    /\ UNCHANGED notAudio

\* _record_with_ffmpeg, lines 389-400: one chunk read from the pipe
FfmpegRead ==
    /\ audio_io.pc = "ffmpeg"
    /\ audio_io.recording
    /\ device.ok
    /\ audio_io.chunks < MaxRecChunks
    /\ audio_io' = [audio_io EXCEPT !.chunks = @ + 1]
    /\ UNCHANGED device
    /\ UNCHANGED notAudio

\* _record_with_ffmpeg: the loop ends because _recording was cleared or
\* because ffmpeg could not read the device and its pipe is at end of file
FfmpegReturn ==
    /\ audio_io.pc = "ffmpeg"
    /\ ~audio_io.recording \/ ~device.ok
    /\ audio_io' = [audio_io EXCEPT !.pc = "returned", !.result = audio_io.chunks]
    /\ UNCHANGED device
    /\ UNCHANGED notAudio

\* the callback of the InputStream, lines 429-436, while _recording is set
SdCallback ==
    /\ audio_io.pc = "sounddevice"
    /\ audio_io.recording
    /\ device.ok
    /\ audio_io.chunks < MaxRecChunks
    /\ audio_io' = [audio_io EXCEPT !.chunks = @ + 1]
    /\ UNCHANGED device
    /\ UNCHANGED notAudio

\* lines 446-451: _recording was cleared, the stream is closed
SdReturn ==
    /\ audio_io.pc = "sounddevice"
    /\ ~audio_io.recording
    /\ audio_io' = [audio_io EXCEPT !.pc = "returned", !.result = audio_io.chunks]
    /\ UNCHANGED device
    /\ UNCHANGED notAudio

\* stop_recording
StopRecording ==
    /\ audio_io.recording
    /\ audio_io' = [audio_io EXCEPT !.recording = FALSE]
    /\ UNCHANGED device
    /\ UNCHANGED notAudio

\* the device is unplugged or fails
DeviceBreaks ==
    /\ device.ok
    /\ audio_io.pc # "unbuilt"
    /\ device' = [device EXCEPT !.ok = FALSE]
    /\ UNCHANGED audio_io
    /\ UNCHANGED notAudio

(***************************************************************************)
(* Push-to-talk: on_ptt_start (lines 1350-1364) and run_ptt_mode (1194-    *)
(* 1203) start a thread that calls record_until_release; on_ptt_stop       *)
(* (1366-1369) and the ENTER key (1206-1213) call stop_recording from the  *)
(* caller's thread.                                                        *)
(***************************************************************************)
\* threading.Thread(target=record).start(): the thread exists, and
\* record_until_release has not run its first line yet
CaptureThreadStart ==
    /\ audio_io.pc \in {"ready", "returned"}
    /\ audio_io.calls < MaxRecordings
    /\ audio_io' = [audio_io EXCEPT !.pc = "starting", !.calls = @ + 1,
                                    !.stopped = FALSE]
    /\ UNCHANGED device
    /\ UNCHANGED notAudio

\* record_until_release on the capture thread: line 419 sets _recording,
\* lines 422-424 start ffmpeg, lines 438-445 open the InputStream
RecordBegin ==
    /\ audio_io.pc = "starting"
    /\ audio_io' = [audio_io EXCEPT
                      !.recording = TRUE,
                      !.chunks = 0,
                      !.brokenAtStart = ~device.ok,
                      !.pc = IF audio_io.use_ffmpeg THEN "ffmpeg"
                             ELSE IF device.ok THEN "sounddevice"
                             ELSE "raised"]
    /\ UNCHANGED device
    /\ UNCHANGED notAudio

\* stop_recording called by on_ptt_stop or the ENTER key, once for the
\* recording started; it clears _recording and terminates the ffmpeg process
\* if there is one (there is none before line 379)
PttStopRecording ==
    /\ audio_io.pc \in {"starting", "ffmpeg", "sounddevice"}
    /\ ~audio_io.stopped
    /\ audio_io' = [audio_io EXCEPT !.recording = FALSE, !.stopped = TRUE]
    /\ UNCHANGED device
    /\ UNCHANGED notAudio

NextPtt ==
    \/ AudioInit
    \/ ForceFfmpeg
    \/ CaptureThreadStart
    \/ RecordBegin
    \/ FfmpegRead
    \/ FfmpegReturn
    \/ SdCallback
    \/ SdReturn
    \/ PttStopRecording
    \/ DeviceBreaks

NextCapture ==
    \/ AudioInit
    \/ ForceFfmpeg
    \/ RecordStart
    \/ FfmpegRead
    \/ FfmpegReturn
    \/ SdCallback
    \/ SdReturn
    \/ StopRecording
    \/ DeviceBreaks

(***************************************************************************)
(* Claims about the turn entry points (SpecTurns)                          *)
(***************************************************************************)

\* C1: a _process_vad_audio call that arrives while another call holds the
\* processing lock returns as dropped: no STT, LLM, TTS or playback is ever run
\* on its audio, it never holds the lock, and it stays dropped (it is not
\* queued and processed later).
C1_BusyCallIsDropped ==
    \A c \in arrivedBusy :
        /\ calls[c].pc = "dropped"
        /\ ran[c] = {}
        /\ processing_lock # c

\* C1 witness: a call was dropped while the call holding the lock went on to
\* speak its response.
C1_Witness ==
    \E c, d \in CallIds :
        /\ c \in arrivedBusy
        /\ calls[c].pc = "dropped"
        /\ processing_lock = d
        /\ calls[d].pc = "tts"

\* C2: at most one conversational turn (STT -> LLM -> TTS/playback) is in
\* flight on one IrisLocal instance, whichever entry point started it.
C2_AtMostOneTurnInFlight ==
    Cardinality({c \in CallIds : InFlight(c)}) <= 1

\* C3: every _process_vad_audio call that acquired the processing lock has
\* released it when it returns, on every exit path; so whenever no
\* _process_vad_audio turn is running the lock is free, and a call that then
\* arrives is processed rather than dropped.
C3_LockReleasedOnEveryExit ==
    /\ \A c \in CallIds : calls[c].pc \in {"done", "dropped", "new"} => processing_lock # c
    /\ (\A c \in CallIds : calls[c].entry = "gui_vad" =>
                              calls[c].pc \in {"done", "dropped"})
          => processing_lock = 0
    /\ \A c \in CallIds :
          (calls[c].entry = "gui_vad" /\ calls[c].pc = "dropped") => c \in arrivedBusy

\* C3 witness: a call ended with an exception, and the next call acquired the
\* lock and is being processed.
C3_Witness ==
    \E c, d \in CallIds :
        /\ calls[c].entry = "gui_vad"
        /\ calls[c].pc = "done"
        /\ calls[c].outcome = "error"
        /\ calls[d].entry = "gui_vad"
        /\ processing_lock = d
        /\ calls[d].pc = "llm"

(***************************************************************************)
(* Claims about the segmenter (SpecSeg)                                    *)
(***************************************************************************)

\* C4: for every chunk sequence whose total speech duration is less than
\* min_speech_duration, the segmenter never emits an utterance.
C4_ShortSpeechNeverEmitted ==
    speechTotal * chunk_samples < min_samples => emitted = <<>>

\* C5 as stated: for silence, then speech totalling at least
\* min_speech_duration, then silence of at least silence_duration, exactly one
\* utterance is emitted and the start and the end of its audio are within one
\* chunk of the start and the end of the speech region.
C5_BoundariesWithinOneChunk ==
    (shape = "tail" /\ speechTotal * chunk_samples >= min_samples) =>
        /\ Len(emitted) = 1
        /\ Head(emitted[1]) - firstSpeech \in {-1, 0, 1}
        /\ emitted[1][Len(emitted[1])] - lastSpeech \in {-1, 0, 1}

\* C5 as amended: for such a sequence exactly one utterance is emitted; its
\* audio is the unbroken run of chunks that starts at the first speech chunk
\* and ends with the non-speech chunk that brings the silence run to
\* silence_duration, so it extends past the last speech chunk by
\* ceil(silence_threshold / chunk_samples) chunks of trailing silence.
C5_OneUtteranceWithTrailingSilence ==
    (shape = "tail" /\ speechTotal * chunk_samples >= min_samples) =>
        /\ Len(emitted) = 1
        /\ Head(emitted[1]) = firstSpeech
        /\ emitted[1][Len(emitted[1])] = lastSpeech + SilenceChunks
        /\ \A i \in 1..Len(emitted[1]) : emitted[1][i] = firstSpeech + i - 1

\* C5 witness: leading silence, a speech region with min_speech_duration of
\* speech, the closing silence, and the one utterance emitted.
C5_Witness ==
    /\ shape = "tail"
    /\ firstSpeech > 1
    /\ speechTotal * chunk_samples >= min_samples
    /\ pos >= lastSpeech + SilenceChunks
    /\ Len(emitted) = 1

(***************************************************************************)
(* Claims about the barge-in monitor (SpecMon)                             *)
(***************************************************************************)
\* number of speech frames at the end of the frames remembered
RECURSIVE TrailingSpeech(_)
TrailingSpeech(recent) ==
    IF recent = <<>> \/ ~(recent[Len(recent)] > monitor_threshold) THEN 0
    ELSE 1 + TrailingSpeech(SubSeq(recent, 1, Len(recent) - 1))

\* C6: a monitor sets the interrupt flag only after 3 consecutive frames each
\* classified as speech with confidence above 0.7; a non-speech frame resets
\* the count to zero, so a shorter run never sets the flag; and one monitor
\* run sets the flag at most once.
C6_FlagOnlyAfterThreeSpeechFrames ==
    \A m \in MonIds :
        /\ monitors[m].sets <= 1
        /\ monitors[m].sets = 1 =>
              /\ Len(monitors[m].recent) = speech_threshold
              /\ \A i \in 1..speech_threshold : monitors[m].recent[i] > monitor_threshold
        /\ monitors[m].speech_frames = TrailingSpeech(monitors[m].recent)
        /\ (monitors[m].sets = 0 /\ monitors[m].pc # "unborn") =>
              monitors[m].speech_frames < speech_threshold

\* C6 witness: a run of speech frames was broken by a non-speech frame without
\* raising the flag, and three speech frames in a row then raised it.
C6_Witness ==
    \E m \in MonIds :
        /\ monitors[m].sets = 1
        /\ interrupt_requested
        /\ flagSetter = m
        /\ monitors[m].broken
        /\ monitors[m].recent = <<8, 8, 8>>

\* C7: within a turn the interrupt flag is true only through a write of the
\* monitor started for that turn, and a turn that sees the flag set saw the
\* write of its own monitor: a monitor of an earlier turn never marks a later
\* turn as interrupted.
C7_FlagSetOnlyByOwnMonitor ==
    /\ (turnPc = "speaking" /\ interrupt_requested) => flagSetter = turn
    /\ observed => blamed = turn

(***************************************************************************)
(* Claims about process_voice (SpecVoice)                                  *)
(***************************************************************************)
\* the cycle has returned and left an InterruptionEvent
EventStored == pv_pc = "done" /\ cycle > 0 /\ last_interruption # NoEvent

\* C8: when a cycle is interrupted, the intended_response of its
\* InterruptionEvent is exactly the concatenation of the tokens consumed from
\* the LLM stream in that cycle (the token at which the loop saw the flag and
\* stopped may be counted or not).
C8_IntendedResponseIsConsumedTokens ==
    EventStored => last_interruption.intended_response \in {consumed, full_response}

\* C9: the trailing buffer goes through the same synthesize-and-play step as a
\* sentence: when its playback is aborted partway the cycle counts as
\* interrupted and only the played prefix counts as spoken; and nothing is
\* synthesized once the cycle is interrupted.
C9_TrailingBufferPlayedLikeASentence ==
    /\ (pv_pc \in {"finally", "joining", "done"} /\ ~pv_error
            /\ finalStep # NoStep /\ finalStep.played < finalStep.len) =>
          /\ was_interrupted
          /\ spoken_text = finalStep.spokenBefore
                              \o SubSeq(buffer, 1, CharsSpoken(buffer, finalStep.played,
                                                                finalStep.len))
    /\ \A i \in 1..Len(synth) : ~synth[i].interrupted

\* the text of the response that was never given to the synthesizer, apart
\* from the whitespace skipped between sentences
Unspoken ==
    sentence \o (IF finalStep = NoStep THEN buffer ELSE <<>>)
             \o SubSeq(consumed, Len(full_response) + 1, Len(consumed))

\* C10: when the interrupt flag is raised only after the final sentence of the
\* response has played in full, the cycle ends as a normal one and stores no
\* InterruptionEvent.
C10_LateFlagIsANormalTurn ==
    (/\ pv_pc = "done" /\ cycle > 0 /\ ~pv_error
     /\ plays.started >= 1 /\ plays.completed = plays.started
     /\ ~flagAtLastPlayEnd
     /\ Strip(Unspoken) = <<>>) => last_interruption = NoEvent

\* C11: when the interrupt flag is true before any sentence of the response
\* has been spoken, the cycle ends interrupted with nothing spoken: an
\* InterruptionEvent with empty spoken_up_to is stored, whether the loop meets
\* the flag at a further token or the stream has ended by then.
C11_EarlyFlagLeavesNothingSpoken ==
    (pv_pc = "done" /\ cycle > 0 /\ ~pv_error /\ earlyFlag /\ Strip(consumed) # <<>>) =>
        /\ was_interrupted
        /\ last_interruption # NoEvent
        /\ last_interruption.spoken_up_to = <<>>

\* the text without its whitespace
NoSpaces(text) == SelectSeq(text, LAMBDA ch : ~IsSpace(ch))

\* C12: when every play_interruptible call of a cycle reports full completion
\* and every sentence of the response was played, the cycle ends with
\* was_interrupted false and with the spoken text equal to the intended
\* response (compared here without regard to whitespace).
C12_FullPlaybackIsNotInterrupted ==
    (/\ pv_pc = "done" /\ cycle > 0 /\ ~pv_error
     /\ plays.started >= 1 /\ plays.completed = plays.started
     /\ Strip(Unspoken) = <<>>) =>
        /\ ~was_interrupted
        /\ NoSpaces(spoken_text) = NoSpaces(full_response)

\* C13: when playback of a sentence is cut short, the text added to the
\* spoken text is the whole-word prefix of the sentence holding
\* max(1, floor(samplesPlayed / len(audio) * wordCount)) words, was_interrupted
\* is set, and no further token is consumed.
C13_AbortedSentenceAddsWholeWordPrefix ==
    abortStep # NoStep =>
        /\ Strip(spoken_text) =
              Strip(abortStep.spokenBefore
                       \o WordPrefix(abortStep.text, abortStep.played, abortStep.len))
        /\ was_interrupted
        /\ nTokens = abortStep.tokens

\* a is a prefix of b and shorter than b
StrictPrefix(a, b) == Len(a) < Len(b) /\ SubSeq(b, 1, Len(a)) = a

\* C14: whenever a cycle is interrupted, the spoken text recorded for it is a
\* strict prefix of the intended response recorded for the same cycle (compared
\* here without regard to whitespace, for a response that is not blank).
C14_SpokenIsStrictPrefixOfIntended ==
    (EventStored /\ Strip(last_interruption.intended_response) # <<>>) =>
        StrictPrefix(NoSpaces(last_interruption.spoken_up_to),
                     NoSpaces(last_interruption.intended_response))

\* C15: while tokens are still arriving, a sentence is handed to synthesis
\* only when its terminal punctuation is followed by whitespace in the buffer;
\* terminal punctuation that is the last character received does not cause a
\* flush.
C15_FlushOnlyWhenWhitespaceFollows ==
    pv_pc = "play" => (lastCut # <<>> /\ IsSpace(lastCut[1]))

\* the synthesis calls process_voice makes for a text that arrives one
\* character per token: a call for each sentence as it completes, and one for
\* what is left at the end unless that is blank
RECURSIVE SentencesFed(_, _, _)
SentencesFed(text, buf, out) ==
    IF text = <<>>
    THEN IF Strip(buf) # <<>> THEN Append(out, buf) ELSE out
    ELSE LET grown == Append(buf, Head(text))
         IN IF SentenceEnd(grown) # 0
            THEN SentencesFed(Tail(text), MatchRest(grown), Append(out, MatchSentence(grown)))
            ELSE SentencesFed(Tail(text), grown, out)

\* the texts synthesized, each without its leading and trailing whitespace
SynthTexts == [i \in 1..Len(synth) |-> Strip(synth[i].text)]

StripEach(texts) == [i \in 1..Len(texts) |-> Strip(texts[i])]

\* C16: with no interruption, however the response text is split into tokens,
\* process_voice makes exactly one synthesis call per sentence of the text, in
\* stream order, and none for a blank trailing buffer: the calls are those made
\* for the same text arriving character by character (texts compared without
\* their leading and trailing whitespace).
C16_OneSynthesisPerSentenceInOrder ==
    (/\ pv_pc = "done" /\ cycle > 0 /\ ~pv_error
     /\ ~was_interrupted /\ ~interrupt_requested
     /\ plays.completed = plays.started) =>
        SynthTexts = StripEach(SentencesFed(consumed, <<>>, <<>>))

(***************************************************************************)
(* Claims about play_interruptible (SpecPlay)                              *)
(***************************************************************************)
\* C17: play_interruptible returns len(audio) exactly when playback ran for
\* its whole duration without the abort callback returning true; when the
\* callback returns true first it returns the estimate
\* elapsed / totalDuration * len(audio), which is at least 0 and strictly less
\* than len(audio).
C17_PlayInterruptibleReturn ==
    lastPlay # NoStep =>
        /\ lastPlay.returned = lastPlay.len <=>
              (~lastPlay.aborted /\ lastPlay.elapsed * SamplesPerTick >= lastPlay.len)
        /\ lastPlay.aborted =>
              /\ lastPlay.returned * (lastPlay.len \div SamplesPerTick)
                    = lastPlay.elapsed * lastPlay.len
              /\ lastPlay.returned >= 0
              /\ lastPlay.returned < lastPlay.len

\* C17 witness: a playback of two polling intervals was stopped after one
C17_Witness ==
    /\ lastPlay # NoStep
    /\ lastPlay.aborted
    /\ lastPlay.len = 2 * SamplesPerTick
    /\ lastPlay.returned = SamplesPerTick

(***************************************************************************)
(* Claims about cycles run one after another (SpecCycles).                 *)
(***************************************************************************)
\* a cycle has run to its end, in either front end
CycleOver ==
    cycle > 0 /\ (IF mode = "cli" THEN pv_pc = "done" ELSE gui_pc = "done")

\* the annotation turns the cycle appended to the history
NotesAdded ==
    {i \in (Len(priorHistory) + 1)..Len(conversation_history) :
        conversation_history[i].kind = "interruption_note"}

\* C18: an InterruptionEvent pending when a cycle begins is consumed by that
\* cycle, whatever its outcome: the cycle appends exactly one annotation turn
\* for it and clears it, so an event still pending when the cycle is over was
\* created by this very cycle.
C18_PendingEventConsumedByNextCycle ==
    (CycleOver /\ priorEvent # NoEvent) =>
        /\ last_interruption # NoEvent => last_interruption.timestamp = cycle
        /\ Cardinality(NotesAdded) = 1
        /\ \A i \in NotesAdded : conversation_history[i] = InterruptionNote(priorEvent)

\* C19: when the cycle before was interrupted, the LLM request this cycle
\* composes holds a history message with the intended response and the
\* spoken text of that interruption.
C19_NextRequestCarriesInterruption ==
    (cycle > 0 /\ llm_request # NoRequest /\ priorEvent # NoEvent) =>
        \E i \in 1..Len(llm_request.messages) :
            llm_request.messages[i] = InterruptionNote(priorEvent)

\* the cycle had a transcript and its LLM call succeeded
CycleAnswered ==
    IF mode = "cli"
    THEN pv_pc = "done" /\ llm_request # NoRequest /\ ~pv_error
    ELSE gui_pc \in {"speak", "play", "after", "joining", "done"}
            /\ llm_request # NoRequest /\ gui_response # <<>>

\* the full response the cycle intended to say
CycleResponse ==
    IF mode = "cli" THEN IntendedResponse(full_response, buffer) ELSE gui_response

\* C20: a cycle with a transcript and a successful LLM response leaves, as
\* the last two turns of the history, a user turn with the exact transcript
\* and then an assistant turn with the full intended response, also when the
\* playback of the response was interrupted.
C20_CycleAppendsUserThenAssistant ==
    (cycle > 0 /\ CycleAnswered) =>
        LET n == Len(conversation_history)
        IN /\ n >= Len(priorHistory) + 2
           /\ conversation_history[n - 1] = Message("user", Transcript(cycle))
           /\ conversation_history[n] = Message("assistant", CycleResponse)

(***************************************************************************)
(* Claims about the history over a session (SpecSession).                  *)
(***************************************************************************)
\* the last n elements of a sequence
LastOf(seq, n) == SubSeq(seq, Len(seq) - n + 1, Len(seq))

\* the history is what it was when the cycle began, less some of its oldest
\* messages, followed by the messages the cycle added (an annotation, a
\* user turn and an assistant turn at most)
OldestDropped ==
    \E added \in 0..3 :
        /\ added <= Len(conversation_history)
        /\ Len(conversation_history) - added <= Len(priorHistory)
        /\ SubSeq(conversation_history, 1, Len(conversation_history) - added)
              = LastOf(priorHistory, Len(conversation_history) - added)

\* C21: the history never holds more than 2 * max_history_turns messages,
\* nor does the history part of the LLM request composed from it (the
\* messages before the current user message), and the messages dropped to
\* keep the bound are the oldest ones.
C21_HistoryBounded ==
    /\ Len(conversation_history) <= 2 * max_history_turns
    /\ llm_request # NoRequest =>
          Len(llm_request.messages) <= 2 * max_history_turns + 1
    /\ OldestDropped

(***************************************************************************)
(* Claims about the errors of a cycle (SpecCycles).                        *)
(***************************************************************************)
\* C22: a cycle whose transcript is empty or blank ends without an LLM
\* request, without starting the interruption monitor, without synthesis or
\* playback, and with the processing lock free.
C22_NoSpeechEndsCycleQuietly ==
    (CycleOver /\ transcribed = "empty") =>
        /\ llm_request = NoRequest
        /\ monitors[cycle].pc = "unborn"
        /\ ~vad_monitor_active
        /\ ~is_speaking
        /\ synth = <<>>
        /\ plays.started = 0
        /\ processing_lock = 0
        /\ ~is_processing

\* a cycle that spoke is followed by a cycle with an empty transcript
C22_Witness ==
    /\ CycleOver
    /\ transcribed = "empty"
    /\ cycle = 2
    /\ monitors[1].pc # "unborn"
    /\ mode = "gui"

\* C23: a cycle whose transcript is empty leaves the history as it was
\* when the cycle began, also when an InterruptionEvent was pending.
C23_NoSpeechLeavesHistory ==
    (CycleOver /\ transcribed = "empty") => conversation_history = priorHistory

\* C24: a cycle whose LLM call failed or timed out ends in an error status
\* with the processing lock free, and the history does not hold the user
\* turn of that cycle without an assistant turn after it.
C24_LlmFailureEndsInError ==
    (CycleOver /\ llm_outcome \in {"raise", "http_error"}) =>
        /\ cycle_status = "error"
        /\ processing_lock = 0
        /\ ~is_processing
        /\ \A i \in 1..Len(conversation_history) :
              conversation_history[i] = Message("user", Transcript(cycle)) =>
                  /\ i < Len(conversation_history)
                  /\ conversation_history[i + 1].role = "assistant"
                  /\ conversation_history[i + 1].kind = "text"

(***************************************************************************)
(* Claims about the capture actors (SpecActors).                           *)
(***************************************************************************)
\* C25: an exception raised inside the capture loop or inside the monitor
\* loop does not leave the actor: while listening is on the capture loop is
\* running, and no monitor thread was ended by an exception.
C25_ActorsSurviveExceptions ==
    /\ vad_active => vad_thread_alive
    /\ \A m \in MonIds : ~monitors[m].crashed

\* the ffmpeg capture processes that are open: the one of _vad_loop while
\* its thread lives, and the one of every monitor thread still in its loop
CaptureStreams ==
    (IF vad_thread_alive THEN 1 ELSE 0)
        + Cardinality({m \in MonIds : monitors[m].pc \in {"check", "read"}})

\* the playbacks in progress
PlaybackStreams == IF turnPc = "speaking" THEN 1 ELSE 0

\* C26: the audio device is owned exclusively: the captures of the segmenter
\* and of the interruption monitors never overlap, so never more than one
\* capture stream is open, and never more than one playback stream.
C26_ExclusiveAudioDevice ==
    /\ CaptureStreams <= 1
    /\ PlaybackStreams <= 1

(***************************************************************************)
(* Claims about AudioIO (SpecCapture).                                     *)
(***************************************************************************)
\* C27: when the capture device is missing or broken, a capture ends with
\* zero chunks and no exception reaches the caller of record_until_release.
C27_BrokenDeviceGivesNoChunks ==
    (audio_io.pc \in {"returned", "raised"} /\ audio_io.brokenAtStart) =>
        /\ audio_io.pc = "returned"
        /\ audio_io.result = 0

(***************************************************************************)
(* Claims about the interruption context (SpecCycles).                     *)
(***************************************************************************)
\* C28: in a cycle that begins with an InterruptionEvent pending and has a
\* transcript, the event holds that transcript as user_interruption when it
\* is folded into the history and cleared.
C28_UserInterruptionFilledBeforeFold ==
    (cycle > 0 /\ transcribed = "text" /\ priorEvent # NoEvent) =>
        /\ foldedEvent # NoEvent
        /\ foldedEvent.user_interruption = Transcript(cycle)

(***************************************************************************)
(* Claims about the silence counter of the segmenter (SpecSeg)             *)
(***************************************************************************)
\* the chunks of an utterance are consecutive positions that end at chunk p
InArrivalOrder(chunks, p) ==
    /\ chunks # <<>>
    /\ chunks[Len(chunks)] = p
    /\ \A i \in 1..Len(chunks) : chunks[i] = chunks[1] + i - 1

\* a step that finalizes the open utterance (emitted or discarded)
Finalized == vad_is_speaking /\ ~vad_is_speaking'

\* while speaking: the counter is the length of the current unbroken run of
\* non-speech chunks (zero right after a speech chunk), and the open utterance
\* holds every chunk since its first one, in arrival order
OpenUtteranceTracksInput ==
    vad_is_speaking' =>
        /\ silence_samples' = silenceRun' * chunk_samples
        /\ prevSpeech' => silence_samples' = 0
        /\ InArrivalOrder(vad_audio_buffer', pos')

\* C29 as stated: while the segmenter is in SPEECH a speech chunk resets the
\* silence-run counter, every chunk is appended to the open utterance in
\* arrival order, and an utterance is finalized only after an unbroken run of
\* non-speech chunks totalling at least silence_duration samples.
C29_FinalizedOnlyAfterSilenceRun ==
    [][/\ OpenUtteranceTracksInput
       /\ emitted' # emitted =>
             silenceRun' * chunk_samples >= silence_threshold]_vars

\* C29 as amended: the same, for an utterance finalized by the capture loop;
\* _stop_vad_listening finalizes the open utterance at once, with the chunks
\* received so far, whatever the length of the silence run.
C29_LoopFinalizesOnlyAfterSilenceRun ==
    [][/\ OpenUtteranceTracksInput
       /\ (Finalized /\ vad_active') =>
             /\ silenceRun' * chunk_samples >= silence_threshold
             /\ (silenceRun' - 1) * chunk_samples < silence_threshold
             /\ emitted' # emitted =>
                   /\ InArrivalOrder(emitted'[Len(emitted')], pos')
                   /\ emitted'[Len(emitted')] = Append(vad_audio_buffer, pos')
       /\ (Finalized /\ ~vad_active') =>
             /\ emitted' # emitted =>
                   emitted'[Len(emitted')] = vad_audio_buffer]_vars

\* C29 witness: an utterance whose speech had a gap of non-speech chunks (two
\* runs of speech), finalized by the chunk that completes the closing silence
\* run and emitted with every chunk from the first speech chunk on.
C29_Witness ==
    /\ shape = "tail"
    /\ runs = 2
    /\ silenceRun = SilenceChunks
    /\ Len(emitted) = 1
    /\ emitted[1][1] = firstSpeech
    /\ InArrivalOrder(emitted[1], pos)
    /\ Len(emitted[1]) > speechTotal + SilenceChunks
    /\ ~vad_is_speaking

(***************************************************************************)
(* Claims about the flag met at a boundary (SpecCycles)                    *)
(***************************************************************************)
\* C30: once process_voice (at a token or before a sentence) or speak (before
\* a sentence) has met the interrupt flag set, the cycle makes no further
\* synthesis or playback call, the trailing buffer included, and
\* process_voice ends with was_interrupted true and the event of the cycle
\* stored.
C30_NoSpeechAfterFlagSeen ==
    flagSeen # NoStep =>
        /\ Len(synth) = flagSeen.synth
        /\ plays.started = flagSeen.started
        /\ flagSeen.at \in {"token", "sentence"} =>
              /\ pv_pc \in {"after_loop", "finally", "joining", "done"}
              /\ was_interrupted
              /\ finalStep = NoStep
              /\ pv_pc = "done" =>
                    /\ ~pv_error
                    /\ last_interruption # NoEvent
                    /\ last_interruption.timestamp = cycle
        /\ flagSeen.at = "speak" => gui_pc \in {"after", "joining", "done"}

\* C30 witness: process_voice has returned from a cycle in which it spoke a
\* sentence, then met the flag set at the next token while text was left in
\* the buffer; the text left was never synthesized.
C30_Witness ==
    /\ mode = "cli"
    /\ pv_pc = "done"
    /\ flagSeen # NoStep
    /\ flagSeen.at = "token"
    /\ plays.completed = 1
    /\ Strip(buffer) # <<>>
    /\ Len(synth) = 1
    /\ was_interrupted

(***************************************************************************)
(* Claims about the monitor around a cycle (SpecCycles)                    *)
(***************************************************************************)
\* the cycle started the interruption monitor
MonitorStarted == cycle > 0 /\ monitors[cycle].pc # "unborn"

StatsUnchanged ==
    /\ context_used = priorStats.context_used
    /\ total_tokens_session = priorStats.total

\* the LLM call of the cycle did not return successfully: the request or the
\* tool follow-up raised, or the server answered with an HTTP error
LlmCallFailed == llm_outcome \in {"raise", "tool_raise", "http_error"}

\* C32: context_used and the session token total change only after an LLM
\* call has returned successfully; a cycle whose LLM request or tool
\* follow-up request failed leaves both as they were before the cycle.
C32_StatsChangeOnlyOnSuccess ==
    (cycle > 0 /\ (llm_outcome = "none" \/ LlmCallFailed)) => StatsUnchanged

(***************************************************************************)
(* Claims about the choice of the capture backend (SpecCapture)            *)
(***************************************************************************)
\* C33: the capture backend is chosen once, when AudioIO is constructed, and
\* does not change afterwards; the ffmpeg backend is chosen exactly when the
\* probe capture's peak is at or below the silence floor.
C33_BackendChosenByProbe ==
    audio_io.pc # "unbuilt" =>
        /\ audio_io.use_ffmpeg = audio_io.chosen
        /\ audio_io.chosen <=> audio_io.probeSilent

(***************************************************************************)
(* Claims about the number of monitor threads (SpecMon)                    *)
(***************************************************************************)
\* a step in which monitor m classifies the frame it has read: it goes back
\* to its while test, or raises the flag and ends
Classified(m) ==
    /\ monitors[m].pc = "read"
    /\ monitors'[m].pc = "check" \/ monitors'[m].sets > monitors[m].sets

\* C34: once _start_vad_monitor has started a new monitor, every monitor
\* started for an earlier turn has terminated or terminates without
\* classifying another frame, also when the join of _stop_vad_monitor timed
\* out: no monitor thread classifies audio after a later one was started.
C34_OldMonitorsClassifyNothing ==
    [][\A m \in MonIds : Classified(m) => ~Superseded(m)]_vars

(***************************************************************************)
(* Claims about a dropped call (SpecTurns)                                 *)
(***************************************************************************)
\* a step in which the _process_vad_audio call of utterance c is dropped
Dropped(c) == calls[c].pc = "new" /\ calls'[c].pc = "dropped"

\* C35: a dropped _process_vad_audio call changes nothing: the lock stays with
\* the turn in flight, _is_processing and the stt/llm/tts indicators keep their
\* values, no stage runs, no other call moves, and the conversation history
\* and the pending InterruptionEvent are untouched.
C35_DroppedCallChangesNothing ==
    [][\A c \in CallIds :
          Dropped(c) =>
             /\ processing_lock' = processing_lock
             /\ processing_lock' # 0
             /\ is_processing' = is_processing
             /\ pipeline_status' = pipeline_status
             /\ ran' = ran
             /\ \A d \in CallIds \ {c} : calls'[d] = calls[d]
             /\ conversation_history' = conversation_history
             /\ last_interruption' = last_interruption]_vars

\* C35 witness: a call was dropped while the turn holding the lock was waiting
\* for the LLM, and that turn still holds the lock with its indicators set.
C35_Witness ==
    \E c, d \in CallIds :
        /\ c \in arrivedBusy
        /\ calls[c].pc = "dropped"
        /\ calls[d].entry = "gui_vad"
        /\ calls[d].pc = "llm"
        /\ processing_lock = d
        /\ is_processing
        /\ pipeline_status = [stt |-> "done", llm |-> "active", tts |-> "idle"]

(***************************************************************************)
(* Claims about the VAD checkbox and the capture threads (SpecListen)      *)
(***************************************************************************)
\* C36: each buffered utterance is submitted for processing at most once: no
\* two of the audio arrays handed to _process_vad_audio hold a chunk in
\* common, also when _stop_vad_listening flushes the buffer while _vad_loop
\* is finalizing it.
C36_UtteranceSubmittedOnce ==
    \A i, j \in DOMAIN emitted :
        i # j => ChunksOf(emitted[i]) \cap ChunksOf(emitted[j]) = {}

\* thread t is inside an iteration of its capture loop: it passed the while
\* test of line 608 and holds a chunk it has read
Capturing(t) ==
    loops[t].pc \in {"classified", "begin", "begin2", "append", "append_silence",
                     "end", "has_buffer", "concat", "clear"}

\* C37: across any sequence of VAD toggles at most one _vad_loop thread is
\* capturing and writing the shared utterance buffer, also when the join of
\* _stop_vad_listening timed out before the next start.
C37_OneCaptureThread ==
    Cardinality({t \in LoopIds : Capturing(t)}) <= 1

(***************************************************************************)
(* Claims about push-to-talk recording (SpecPtt)                           *)
(***************************************************************************)
\* record_until_release has returned, or an exception has left it
RecordingOver == audio_io.pc \in {"returned", "raised"}

\* C38: after stop_recording() is called for a recording, the
\* record_until_release() call of that recording eventually returns, whatever
\* the interleaving of the capture thread's start-up with the stop call.
C38_StoppedRecordingReturns ==
    audio_io.stopped ~> RecordingOver

(***************************************************************************)
(* Claims about warmup and clear_history (SpecLife)                        *)
(***************************************************************************)
\* C39: warmup() leaves the conversation state untouched: after warmup() and
\* before the first user utterance the history is empty and the session
\* token total is zero.
C39_WarmupLeavesConversationEmpty ==
    (warmed_up /\ cycle = 0) =>
        /\ conversation_history = <<>>
        /\ total_tokens_session = 0

\* the note of the InterruptionEvent that was pending at the last clear
StaleNote == InterruptionNote(pendingAtClear)

\* C40: nothing generated before clear_history() re-enters the history or a
\* later LLM request: the InterruptionEvent that was pending at the time of
\* the clear is not appended to the history by a later cycle.
C40_ClearedEventStaysOut ==
    pendingAtClear # NoEvent =>
        /\ \A i \in DOMAIN conversation_history : conversation_history[i] # StaleNote
        /\ llm_request # NoRequest =>
              \A i \in DOMAIN llm_request.messages : llm_request.messages[i] # StaleNote

(***************************************************************************)
(* Specifications.  Each starts the component it runs in its constructed   *)
(* state and pins the other components at rest.                            *)
(***************************************************************************)
InitSeg ==
    \* IrisGUI.__init__ / the locals of run_vad_mode, with the capture loop started
    /\ vad_active = TRUE
    /\ vad_thread_alive = TRUE
    /\ vad_is_speaking = FALSE
    /\ vad_audio_buffer = <<>>
    /\ silence_samples = 0
    /\ pos = 0
    /\ emitted = <<>>
    /\ speechTotal = 0
    /\ firstSpeech = 0
    /\ lastSpeech = 0
    /\ shape = "lead"
    /\ prevSpeech = FALSE
    /\ runs = 0
    /\ silenceRun = 0
    \* at rest
    /\ mode = "gui"
    /\ processing_lock = 0
    /\ is_processing = FALSE
    /\ calls = [c \in CallIds |-> NewCall]
    /\ ran = [c \in CallIds |-> {}]
    /\ arrivedBusy = {}
    /\ pipeline_status = IdleStatus
    /\ vad_monitor_active = FALSE
    /\ interrupt_requested = FALSE
    /\ vad_monitor_thread = 0
    /\ is_speaking = FALSE
    /\ monitors = [m \in MonIds |-> NewMonitor]
    /\ flagSetter = 0
    /\ turn = 0
    /\ turnPc = "idle"
    /\ observed = FALSE
    /\ blamed = 0
    /\ cycle = 0
    /\ pv_pc = "idle"
    /\ pv_error = FALSE
    /\ buffer = <<>>
    /\ full_response = <<>>
    /\ spoken_text = <<>>
    /\ was_interrupted = FALSE
    /\ sentence = <<>>
    /\ audio_len = 0
    /\ elapsed = 0
    /\ nTokens = 0
    /\ last_interruption = NoEvent
    /\ conversation_history = <<>>
    /\ consumed = <<>>
    /\ synth = <<>>
    /\ plays = [started |-> 0, completed |-> 0]
    /\ flagAtLastPlayEnd = FALSE
    /\ finalStep = NoStep
    /\ priorStats = [context_used |-> 0, total |-> 0]
    /\ total_tokens_session = 0
    /\ context_used = 0
    /\ flagSeen = NoStep
    /\ foldedEvent = NoEvent
    /\ cycle_status = "none"
    /\ llm_outcome = "none"
    /\ transcribed = "none"
    /\ priorHistory = <<>>
    /\ priorEvent = NoEvent
    /\ llm_request = NoRequest
    /\ gui_pc = "idle"
    /\ audio_io = NewAudioIO
    /\ loops = [t \in LoopIds |-> NewLoop]
    /\ toggler = NewToggler
    /\ vad_thread = 0
    /\ overlap = 0
    /\ warmed_up = FALSE
    /\ pendingAtClear = NoEvent
    /\ device = WorkingDevice
    /\ gui_response = <<>>
    /\ gui_sentences = <<>>
    /\ gui_spoken = <<>>
    /\ lastPlay = NoStep
    /\ lastCut = <<>>
    /\ abortStep = NoStep
    /\ earlyFlag = FALSE

SpecSeg == InitSeg /\ [][NextSeg]_vars

InitTurns ==
    \* IrisGUI.__init__, lines 154-156, under either front end
    /\ mode \in {"gui", "cli"}
    /\ processing_lock = 0
    /\ is_processing = FALSE
    /\ calls = [c \in CallIds |-> NewCall]
    /\ ran = [c \in CallIds |-> {}]
    /\ arrivedBusy = {}
    /\ pipeline_status = IdleStatus
    \* at rest
    /\ vad_active = FALSE
    /\ vad_thread_alive = FALSE
    /\ vad_is_speaking = FALSE
    /\ vad_audio_buffer = <<>>
    /\ silence_samples = 0
    /\ pos = 0
    /\ emitted = <<>>
    /\ speechTotal = 0
    /\ firstSpeech = 0
    /\ lastSpeech = 0
    /\ shape = "lead"
    /\ prevSpeech = FALSE
    /\ runs = 0
    /\ silenceRun = 0
    /\ vad_monitor_active = FALSE
    /\ interrupt_requested = FALSE
    /\ vad_monitor_thread = 0
    /\ is_speaking = FALSE
    /\ monitors = [m \in MonIds |-> NewMonitor]
    /\ flagSetter = 0
    /\ turn = 0
    /\ turnPc = "idle"
    /\ observed = FALSE
    /\ blamed = 0
    /\ cycle = 0
    /\ pv_pc = "idle"
    /\ pv_error = FALSE
    /\ buffer = <<>>
    /\ full_response = <<>>
    /\ spoken_text = <<>>
    /\ was_interrupted = FALSE
    /\ sentence = <<>>
    /\ audio_len = 0
    /\ elapsed = 0
    /\ nTokens = 0
    /\ last_interruption = NoEvent
    /\ conversation_history = <<>>
    /\ consumed = <<>>
    /\ synth = <<>>
    /\ plays = [started |-> 0, completed |-> 0]
    /\ flagAtLastPlayEnd = FALSE
    /\ finalStep = NoStep
    /\ priorStats = [context_used |-> 0, total |-> 0]
    /\ total_tokens_session = 0
    /\ context_used = 0
    /\ flagSeen = NoStep
    /\ foldedEvent = NoEvent
    /\ cycle_status = "none"
    /\ llm_outcome = "none"
    /\ transcribed = "none"
    /\ priorHistory = <<>>
    /\ priorEvent = NoEvent
    /\ llm_request = NoRequest
    /\ gui_pc = "idle"
    /\ audio_io = NewAudioIO
    /\ loops = [t \in LoopIds |-> NewLoop]
    /\ toggler = NewToggler
    /\ vad_thread = 0
    /\ overlap = 0
    /\ warmed_up = FALSE
    /\ pendingAtClear = NoEvent
    /\ device = WorkingDevice
    /\ gui_response = <<>>
    /\ gui_sentences = <<>>
    /\ gui_spoken = <<>>
    /\ lastPlay = NoStep
    /\ lastCut = <<>>
    /\ abortStep = NoStep
    /\ earlyFlag = FALSE

SpecTurns == InitTurns /\ [][NextTurns]_vars

InitMon ==
    \* IrisLocal.__init__, lines 576-581
    /\ vad_monitor_active = FALSE
    /\ interrupt_requested = FALSE
    /\ vad_monitor_thread = 0
    /\ is_speaking = FALSE
    /\ monitors = [m \in MonIds |-> NewMonitor]
    /\ flagSetter = 0
    /\ turn = 0
    /\ turnPc = "idle"
    /\ observed = FALSE
    /\ blamed = 0
    \* at rest
    /\ vad_active = FALSE
    /\ vad_thread_alive = FALSE
    /\ vad_is_speaking = FALSE
    /\ vad_audio_buffer = <<>>
    /\ silence_samples = 0
    /\ pos = 0
    /\ emitted = <<>>
    /\ speechTotal = 0
    /\ firstSpeech = 0
    /\ lastSpeech = 0
    /\ shape = "lead"
    /\ prevSpeech = FALSE
    /\ runs = 0
    /\ silenceRun = 0
    /\ mode = "gui"
    /\ processing_lock = 0
    /\ is_processing = FALSE
    /\ calls = [c \in CallIds |-> NewCall]
    /\ ran = [c \in CallIds |-> {}]
    /\ arrivedBusy = {}
    /\ pipeline_status = IdleStatus
    /\ cycle = 0
    /\ pv_pc = "idle"
    /\ pv_error = FALSE
    /\ buffer = <<>>
    /\ full_response = <<>>
    /\ spoken_text = <<>>
    /\ was_interrupted = FALSE
    /\ sentence = <<>>
    /\ audio_len = 0
    /\ elapsed = 0
    /\ nTokens = 0
    /\ last_interruption = NoEvent
    /\ conversation_history = <<>>
    /\ consumed = <<>>
    /\ synth = <<>>
    /\ plays = [started |-> 0, completed |-> 0]
    /\ flagAtLastPlayEnd = FALSE
    /\ finalStep = NoStep
    /\ priorStats = [context_used |-> 0, total |-> 0]
    /\ total_tokens_session = 0
    /\ context_used = 0
    /\ flagSeen = NoStep
    /\ foldedEvent = NoEvent
    /\ cycle_status = "none"
    /\ llm_outcome = "none"
    /\ transcribed = "none"
    /\ priorHistory = <<>>
    /\ priorEvent = NoEvent
    /\ llm_request = NoRequest
    /\ gui_pc = "idle"
    /\ audio_io = NewAudioIO
    /\ loops = [t \in LoopIds |-> NewLoop]
    /\ toggler = NewToggler
    /\ vad_thread = 0
    /\ overlap = 0
    /\ warmed_up = FALSE
    /\ pendingAtClear = NoEvent
    /\ device = WorkingDevice
    /\ gui_response = <<>>
    /\ gui_sentences = <<>>
    /\ gui_spoken = <<>>
    /\ lastPlay = NoStep
    /\ lastCut = <<>>
    /\ abortStep = NoStep
    /\ earlyFlag = FALSE

SpecMon == InitMon /\ [][NextMon]_vars

InitVoice ==
    \* IrisLocal.__init__, lines 566-590
    /\ vad_monitor_active = FALSE
    /\ interrupt_requested = FALSE
    /\ vad_monitor_thread = 0
    /\ is_speaking = FALSE
    /\ monitors = [m \in MonIds |-> NewMonitor]
    /\ flagSetter = 0
    /\ turn = 0
    /\ turnPc = "idle"
    /\ observed = FALSE
    /\ blamed = 0
    \* at rest
    /\ vad_active = FALSE
    /\ vad_thread_alive = FALSE
    /\ vad_is_speaking = FALSE
    /\ vad_audio_buffer = <<>>
    /\ silence_samples = 0
    /\ pos = 0
    /\ emitted = <<>>
    /\ speechTotal = 0
    /\ firstSpeech = 0
    /\ lastSpeech = 0
    /\ shape = "lead"
    /\ prevSpeech = FALSE
    /\ runs = 0
    /\ silenceRun = 0
    /\ mode = "gui"
    /\ processing_lock = 0
    /\ is_processing = FALSE
    /\ calls = [c \in CallIds |-> NewCall]
    /\ ran = [c \in CallIds |-> {}]
    /\ arrivedBusy = {}
    /\ pipeline_status = IdleStatus
    /\ cycle = 0
    /\ pv_pc = "idle"
    /\ pv_error = FALSE
    /\ buffer = <<>>
    /\ full_response = <<>>
    /\ spoken_text = <<>>
    /\ was_interrupted = FALSE
    /\ sentence = <<>>
    /\ audio_len = 0
    /\ elapsed = 0
    /\ nTokens = 0
    /\ last_interruption = NoEvent
    /\ conversation_history = <<>>
    /\ consumed = <<>>
    /\ synth = <<>>
    /\ plays = [started |-> 0, completed |-> 0]
    /\ flagAtLastPlayEnd = FALSE
    /\ finalStep = NoStep
    /\ priorStats = [context_used |-> 0, total |-> 0]
    /\ total_tokens_session = 0
    /\ context_used = 0
    /\ flagSeen = NoStep
    /\ foldedEvent = NoEvent
    /\ cycle_status = "none"
    /\ llm_outcome = "none"
    /\ transcribed = "none"
    /\ priorHistory = <<>>
    /\ priorEvent = NoEvent
    /\ llm_request = NoRequest
    /\ gui_pc = "idle"
    /\ audio_io = NewAudioIO
    /\ loops = [t \in LoopIds |-> NewLoop]
    /\ toggler = NewToggler
    /\ vad_thread = 0
    /\ overlap = 0
    /\ warmed_up = FALSE
    /\ pendingAtClear = NoEvent
    /\ device = WorkingDevice
    /\ gui_response = <<>>
    /\ gui_sentences = <<>>
    /\ gui_spoken = <<>>
    /\ lastPlay = NoStep
    /\ lastCut = <<>>
    /\ abortStep = NoStep
    /\ earlyFlag = FALSE

SpecVoice == InitVoice /\ [][NextVoice]_vars

(***************************************************************************)
(* play_interruptible on one sentence, with the monitor running.           *)
(***************************************************************************)
NextPlay ==
    \/ \E ticks \in 1..MaxAudioTicks : PvSentence(ticks)
    \/ PvPlayPoll
    \/ \E m \in MonIds : MonitorCheck(m)
    \/ \E m \in MonIds, prob \in MonProbs : MonitorFrame(m, prob)
    \/ \E m \in MonIds : MonitorEof(m)

InitPlay ==
    \* process_voice in its first cycle, with the sentence ".." cut from the
    \* tokens "." and "." and the monitor started
    /\ vad_monitor_active = TRUE
    /\ interrupt_requested = FALSE
    /\ vad_monitor_thread = 1
    /\ is_speaking = TRUE
    /\ monitors = [m \in MonIds |-> IF m = 1 THEN [NewMonitor EXCEPT !.pc = "check"]
                                     ELSE NewMonitor]
    /\ flagSetter = 0
    /\ turn = 0
    /\ turnPc = "idle"
    /\ observed = FALSE
    /\ blamed = 0
    \* at rest
    /\ vad_active = FALSE
    /\ vad_thread_alive = FALSE
    /\ vad_is_speaking = FALSE
    /\ vad_audio_buffer = <<>>
    /\ silence_samples = 0
    /\ pos = 0
    /\ emitted = <<>>
    /\ speechTotal = 0
    /\ firstSpeech = 0
    /\ lastSpeech = 0
    /\ shape = "lead"
    /\ prevSpeech = FALSE
    /\ runs = 0
    /\ silenceRun = 0
    /\ mode = "gui"
    /\ processing_lock = 0
    /\ is_processing = FALSE
    /\ calls = [c \in CallIds |-> NewCall]
    /\ ran = [c \in CallIds |-> {}]
    /\ arrivedBusy = {}
    /\ pipeline_status = IdleStatus
    /\ cycle = 1
    /\ pv_pc = "sentence"
    /\ pv_error = FALSE
    /\ buffer = <<>>
    /\ full_response = <<".", ".">>
    /\ spoken_text = <<>>
    /\ was_interrupted = FALSE
    /\ sentence = <<".", ".">>
    /\ audio_len = 0
    /\ elapsed = 0
    /\ nTokens = 2
    /\ last_interruption = NoEvent
    /\ conversation_history = <<>>
    /\ consumed = <<".", ".">>
    /\ synth = <<>>
    /\ plays = [started |-> 0, completed |-> 0]
    /\ flagAtLastPlayEnd = FALSE
    /\ finalStep = NoStep
    /\ priorStats = [context_used |-> 0, total |-> 0]
    /\ total_tokens_session = 0
    /\ context_used = 0
    /\ flagSeen = NoStep
    /\ foldedEvent = NoEvent
    /\ cycle_status = "none"
    /\ llm_outcome = "none"
    /\ transcribed = "none"
    /\ priorHistory = <<>>
    /\ priorEvent = NoEvent
    /\ llm_request = StreamRequest(Transcript(1))
    /\ gui_pc = "idle"
    /\ audio_io = NewAudioIO
    /\ loops = [t \in LoopIds |-> NewLoop]
    /\ toggler = NewToggler
    /\ vad_thread = 0
    /\ overlap = 0
    /\ warmed_up = FALSE
    /\ pendingAtClear = NoEvent
    /\ device = WorkingDevice
    /\ gui_response = <<>>
    /\ gui_sentences = <<>>
    /\ gui_spoken = <<>>
    /\ lastPlay = NoStep
    /\ lastCut = <<>>
    /\ abortStep = NoStep
    /\ earlyFlag = FALSE

SpecPlay == InitPlay /\ [][NextPlay]_vars

InitCycles ==
    \* IrisLocal.__init__, lines 566-590
    /\ vad_monitor_active = FALSE
    /\ interrupt_requested = FALSE
    /\ vad_monitor_thread = 0
    /\ is_speaking = FALSE
    /\ monitors = [m \in MonIds |-> NewMonitor]
    /\ flagSetter = 0
    /\ turn = 0
    /\ turnPc = "idle"
    /\ observed = FALSE
    /\ blamed = 0
    \* at rest
    /\ vad_active = FALSE
    /\ vad_thread_alive = FALSE
    /\ vad_is_speaking = FALSE
    /\ vad_audio_buffer = <<>>
    /\ silence_samples = 0
    /\ pos = 0
    /\ emitted = <<>>
    /\ speechTotal = 0
    /\ firstSpeech = 0
    /\ lastSpeech = 0
    /\ shape = "lead"
    /\ prevSpeech = FALSE
    /\ runs = 0
    /\ silenceRun = 0
    /\ mode \in {"cli", "gui"}
    /\ processing_lock = 0
    /\ is_processing = FALSE
    /\ calls = [c \in CallIds |-> NewCall]
    /\ ran = [c \in CallIds |-> {}]
    /\ arrivedBusy = {}
    /\ pipeline_status = IdleStatus
    /\ cycle = 0
    /\ pv_pc = "idle"
    /\ pv_error = FALSE
    /\ buffer = <<>>
    /\ full_response = <<>>
    /\ spoken_text = <<>>
    /\ was_interrupted = FALSE
    /\ sentence = <<>>
    /\ audio_len = 0
    /\ elapsed = 0
    /\ nTokens = 0
    /\ last_interruption = NoEvent
    /\ conversation_history = <<>>
    /\ consumed = <<>>
    /\ synth = <<>>
    /\ plays = [started |-> 0, completed |-> 0]
    /\ flagAtLastPlayEnd = FALSE
    /\ finalStep = NoStep
    /\ priorStats = [context_used |-> 0, total |-> 0]
    /\ total_tokens_session = 0
    /\ context_used = 0
    /\ flagSeen = NoStep
    /\ foldedEvent = NoEvent
    /\ cycle_status = "none"
    /\ llm_outcome = "none"
    /\ transcribed = "none"
    /\ priorHistory = <<>>
    /\ priorEvent = NoEvent
    /\ llm_request = NoRequest
    /\ gui_pc = "idle"
    /\ audio_io = NewAudioIO
    /\ loops = [t \in LoopIds |-> NewLoop]
    /\ toggler = NewToggler
    /\ vad_thread = 0
    /\ overlap = 0
    /\ warmed_up = FALSE
    /\ pendingAtClear = NoEvent
    /\ device = WorkingDevice
    /\ gui_response = <<>>
    /\ gui_sentences = <<>>
    /\ gui_spoken = <<>>
    /\ lastPlay = NoStep
    /\ lastCut = <<>>
    /\ abortStep = NoStep
    /\ earlyFlag = FALSE

SpecCycles == InitCycles /\ [][NextCycles]_vars

InitSession ==
    \* IrisLocal.__init__, lines 566-590
    /\ vad_monitor_active = FALSE
    /\ interrupt_requested = FALSE
    /\ vad_monitor_thread = 0
    /\ is_speaking = FALSE
    /\ monitors = [m \in MonIds |-> NewMonitor]
    /\ flagSetter = 0
    /\ turn = 0
    /\ turnPc = "idle"
    /\ observed = FALSE
    /\ blamed = 0
    \* at rest
    /\ vad_active = FALSE
    /\ vad_thread_alive = FALSE
    /\ vad_is_speaking = FALSE
    /\ vad_audio_buffer = <<>>
    /\ silence_samples = 0
    /\ pos = 0
    /\ emitted = <<>>
    /\ speechTotal = 0
    /\ firstSpeech = 0
    /\ lastSpeech = 0
    /\ shape = "lead"
    /\ prevSpeech = FALSE
    /\ runs = 0
    /\ silenceRun = 0
    /\ mode \in {"cli", "gui"}
    /\ processing_lock = 0
    /\ is_processing = FALSE
    /\ calls = [c \in CallIds |-> NewCall]
    /\ ran = [c \in CallIds |-> {}]
    /\ arrivedBusy = {}
    /\ pipeline_status = IdleStatus
    /\ cycle = 0
    /\ pv_pc = "idle"
    /\ pv_error = FALSE
    /\ buffer = <<>>
    /\ full_response = <<>>
    /\ spoken_text = <<>>
    /\ was_interrupted = FALSE
    /\ sentence = <<>>
    /\ audio_len = 0
    /\ elapsed = 0
    /\ nTokens = 0
    /\ last_interruption = NoEvent
    /\ conversation_history = <<>>
    /\ consumed = <<>>
    /\ synth = <<>>
    /\ plays = [started |-> 0, completed |-> 0]
    /\ flagAtLastPlayEnd = FALSE
    /\ finalStep = NoStep
    /\ priorStats = [context_used |-> 0, total |-> 0]
    /\ total_tokens_session = 0
    /\ context_used = 0
    /\ flagSeen = NoStep
    /\ foldedEvent = NoEvent
    /\ cycle_status = "none"
    /\ llm_outcome = "none"
    /\ transcribed = "none"
    /\ priorHistory = <<>>
    /\ priorEvent = NoEvent
    /\ llm_request = NoRequest
    /\ gui_pc = "idle"
    /\ audio_io = NewAudioIO
    /\ loops = [t \in LoopIds |-> NewLoop]
    /\ toggler = NewToggler
    /\ vad_thread = 0
    /\ overlap = 0
    /\ warmed_up = FALSE
    /\ pendingAtClear = NoEvent
    /\ device = WorkingDevice
    /\ gui_response = <<>>
    /\ gui_sentences = <<>>
    /\ gui_spoken = <<>>
    /\ lastPlay = NoStep
    /\ lastCut = <<>>
    /\ abortStep = NoStep
    /\ earlyFlag = FALSE

SpecSession == InitSession /\ [][NextSession]_vars

InitActors ==
    \* IrisGUI.__init__ / the locals of run_vad_mode, with the capture loop started
    /\ vad_active = TRUE
    /\ vad_thread_alive = TRUE
    /\ vad_is_speaking = FALSE
    /\ vad_audio_buffer = <<>>
    /\ silence_samples = 0
    /\ pos = 0
    /\ emitted = <<>>
    /\ speechTotal = 0
    /\ firstSpeech = 0
    /\ lastSpeech = 0
    /\ shape = "lead"
    /\ prevSpeech = FALSE
    /\ runs = 0
    /\ silenceRun = 0
    \* at rest
    /\ mode = "gui"
    /\ processing_lock = 0
    /\ is_processing = FALSE
    /\ calls = [c \in CallIds |-> NewCall]
    /\ ran = [c \in CallIds |-> {}]
    /\ arrivedBusy = {}
    /\ pipeline_status = IdleStatus
    /\ vad_monitor_active = FALSE
    /\ interrupt_requested = FALSE
    /\ vad_monitor_thread = 0
    /\ is_speaking = FALSE
    /\ monitors = [m \in MonIds |-> NewMonitor]
    /\ flagSetter = 0
    /\ turn = 0
    /\ turnPc = "idle"
    /\ observed = FALSE
    /\ blamed = 0
    /\ cycle = 0
    /\ pv_pc = "idle"
    /\ pv_error = FALSE
    /\ buffer = <<>>
    /\ full_response = <<>>
    /\ spoken_text = <<>>
    /\ was_interrupted = FALSE
    /\ sentence = <<>>
    /\ audio_len = 0
    /\ elapsed = 0
    /\ nTokens = 0
    /\ last_interruption = NoEvent
    /\ conversation_history = <<>>
    /\ consumed = <<>>
    /\ synth = <<>>
    /\ plays = [started |-> 0, completed |-> 0]
    /\ flagAtLastPlayEnd = FALSE
    /\ finalStep = NoStep
    /\ priorStats = [context_used |-> 0, total |-> 0]
    /\ total_tokens_session = 0
    /\ context_used = 0
    /\ flagSeen = NoStep
    /\ foldedEvent = NoEvent
    /\ cycle_status = "none"
    /\ llm_outcome = "none"
    /\ transcribed = "none"
    /\ priorHistory = <<>>
    /\ priorEvent = NoEvent
    /\ llm_request = NoRequest
    /\ gui_pc = "idle"
    /\ audio_io = NewAudioIO
    /\ loops = [t \in LoopIds |-> NewLoop]
    /\ toggler = NewToggler
    /\ vad_thread = 0
    /\ overlap = 0
    /\ warmed_up = FALSE
    /\ pendingAtClear = NoEvent
    /\ device = WorkingDevice
    /\ gui_response = <<>>
    /\ gui_sentences = <<>>
    /\ gui_spoken = <<>>
    /\ lastPlay = NoStep
    /\ lastCut = <<>>
    /\ abortStep = NoStep
    /\ earlyFlag = FALSE

SpecActors == InitActors /\ [][NextActors]_vars

InitCapture ==
    \* IrisLocal.__init__, lines 566-590
    /\ vad_monitor_active = FALSE
    /\ interrupt_requested = FALSE
    /\ vad_monitor_thread = 0
    /\ is_speaking = FALSE
    /\ monitors = [m \in MonIds |-> NewMonitor]
    /\ flagSetter = 0
    /\ turn = 0
    /\ turnPc = "idle"
    /\ observed = FALSE
    /\ blamed = 0
    \* at rest
    /\ vad_active = FALSE
    /\ vad_thread_alive = FALSE
    /\ vad_is_speaking = FALSE
    /\ vad_audio_buffer = <<>>
    /\ silence_samples = 0
    /\ pos = 0
    /\ emitted = <<>>
    /\ speechTotal = 0
    /\ firstSpeech = 0
    /\ lastSpeech = 0
    /\ shape = "lead"
    /\ prevSpeech = FALSE
    /\ runs = 0
    /\ silenceRun = 0
    /\ mode = "cli"
    /\ processing_lock = 0
    /\ is_processing = FALSE
    /\ calls = [c \in CallIds |-> NewCall]
    /\ ran = [c \in CallIds |-> {}]
    /\ arrivedBusy = {}
    /\ pipeline_status = IdleStatus
    /\ cycle = 0
    /\ pv_pc = "idle"
    /\ pv_error = FALSE
    /\ buffer = <<>>
    /\ full_response = <<>>
    /\ spoken_text = <<>>
    /\ was_interrupted = FALSE
    /\ sentence = <<>>
    /\ audio_len = 0
    /\ elapsed = 0
    /\ nTokens = 0
    /\ last_interruption = NoEvent
    /\ conversation_history = <<>>
    /\ consumed = <<>>
    /\ synth = <<>>
    /\ plays = [started |-> 0, completed |-> 0]
    /\ flagAtLastPlayEnd = FALSE
    /\ finalStep = NoStep
    /\ priorStats = [context_used |-> 0, total |-> 0]
    /\ total_tokens_session = 0
    /\ context_used = 0
    /\ flagSeen = NoStep
    /\ foldedEvent = NoEvent
    /\ cycle_status = "none"
    /\ llm_outcome = "none"
    /\ transcribed = "none"
    /\ priorHistory = <<>>
    /\ priorEvent = NoEvent
    /\ llm_request = NoRequest
    /\ gui_pc = "idle"
    /\ audio_io = NewAudioIO
    /\ loops = [t \in LoopIds |-> NewLoop]
    /\ toggler = NewToggler
    /\ vad_thread = 0
    /\ overlap = 0
    /\ warmed_up = FALSE
    /\ pendingAtClear = NoEvent
    /\ device \in Devices
    /\ gui_response = <<>>
    /\ gui_sentences = <<>>
    /\ gui_spoken = <<>>
    /\ lastPlay = NoStep
    /\ lastCut = <<>>
    /\ abortStep = NoStep
    /\ earlyFlag = FALSE

SpecCapture == InitCapture /\ [][NextCapture]_vars

InitStats ==
    \* IrisLocal.__init__, lines 566-590
    /\ vad_monitor_active = FALSE
    /\ interrupt_requested = FALSE
    /\ vad_monitor_thread = 0
    /\ is_speaking = FALSE
    /\ monitors = [m \in MonIds |-> NewMonitor]
    /\ flagSetter = 0
    /\ turn = 0
    /\ turnPc = "idle"
    /\ observed = FALSE
    /\ blamed = 0
    \* at rest
    /\ vad_active = FALSE
    /\ vad_thread_alive = FALSE
    /\ vad_is_speaking = FALSE
    /\ vad_audio_buffer = <<>>
    /\ silence_samples = 0
    /\ pos = 0
    /\ emitted = <<>>
    /\ speechTotal = 0
    /\ firstSpeech = 0
    /\ lastSpeech = 0
    /\ shape = "lead"
    /\ prevSpeech = FALSE
    /\ runs = 0
    /\ silenceRun = 0
    /\ mode = "gui"
    /\ processing_lock = 0
    /\ is_processing = FALSE
    /\ calls = [c \in CallIds |-> NewCall]
    /\ ran = [c \in CallIds |-> {}]
    /\ arrivedBusy = {}
    /\ pipeline_status = IdleStatus
    /\ cycle = 0
    /\ pv_pc = "idle"
    /\ pv_error = FALSE
    /\ buffer = <<>>
    /\ full_response = <<>>
    /\ spoken_text = <<>>
    /\ was_interrupted = FALSE
    /\ sentence = <<>>
    /\ audio_len = 0
    /\ elapsed = 0
    /\ nTokens = 0
    /\ last_interruption = NoEvent
    /\ conversation_history = <<>>
    /\ consumed = <<>>
    /\ synth = <<>>
    /\ plays = [started |-> 0, completed |-> 0]
    /\ flagAtLastPlayEnd = FALSE
    /\ finalStep = NoStep
    /\ priorStats = [context_used |-> 0, total |-> 0]
    /\ total_tokens_session = 0
    /\ context_used = 0
    /\ flagSeen = NoStep
    /\ foldedEvent = NoEvent
    /\ cycle_status = "none"
    /\ llm_outcome = "none"
    /\ transcribed = "none"
    /\ priorHistory = <<>>
    /\ priorEvent = NoEvent
    /\ llm_request = NoRequest
    /\ gui_pc = "idle"
    /\ audio_io = NewAudioIO
    /\ loops = [t \in LoopIds |-> NewLoop]
    /\ toggler = NewToggler
    /\ vad_thread = 0
    /\ overlap = 0
    /\ warmed_up = FALSE
    /\ pendingAtClear = NoEvent
    /\ device = WorkingDevice
    /\ gui_response = <<>>
    /\ gui_sentences = <<>>
    /\ gui_spoken = <<>>
    /\ lastPlay = NoStep
    /\ lastCut = <<>>
    /\ abortStep = NoStep
    /\ earlyFlag = FALSE

SpecStats == InitStats /\ [][NextStats]_vars

InitListen ==
    \* IrisGUI.__init__ / the locals of run_vad_mode, with the capture loop started
    /\ vad_active = FALSE
    /\ vad_thread_alive = FALSE
    /\ vad_is_speaking = FALSE
    /\ vad_audio_buffer = <<>>
    /\ silence_samples = 0
    /\ pos = 0
    /\ emitted = <<>>
    /\ speechTotal = 0
    /\ firstSpeech = 0
    /\ lastSpeech = 0
    /\ shape = "lead"
    /\ prevSpeech = FALSE
    /\ runs = 0
    /\ silenceRun = 0
    \* at rest
    /\ mode = "gui"
    /\ processing_lock = 0
    /\ is_processing = FALSE
    /\ calls = [c \in CallIds |-> NewCall]
    /\ ran = [c \in CallIds |-> {}]
    /\ arrivedBusy = {}
    /\ pipeline_status = IdleStatus
    /\ vad_monitor_active = FALSE
    /\ interrupt_requested = FALSE
    /\ vad_monitor_thread = 0
    /\ is_speaking = FALSE
    /\ monitors = [m \in MonIds |-> NewMonitor]
    /\ flagSetter = 0
    /\ turn = 0
    /\ turnPc = "idle"
    /\ observed = FALSE
    /\ blamed = 0
    /\ cycle = 0
    /\ pv_pc = "idle"
    /\ pv_error = FALSE
    /\ buffer = <<>>
    /\ full_response = <<>>
    /\ spoken_text = <<>>
    /\ was_interrupted = FALSE
    /\ sentence = <<>>
    /\ audio_len = 0
    /\ elapsed = 0
    /\ nTokens = 0
    /\ last_interruption = NoEvent
    /\ conversation_history = <<>>
    /\ consumed = <<>>
    /\ synth = <<>>
    /\ plays = [started |-> 0, completed |-> 0]
    /\ flagAtLastPlayEnd = FALSE
    /\ finalStep = NoStep
    /\ priorStats = [context_used |-> 0, total |-> 0]
    /\ total_tokens_session = 0
    /\ context_used = 0
    /\ flagSeen = NoStep
    /\ foldedEvent = NoEvent
    /\ cycle_status = "none"
    /\ llm_outcome = "none"
    /\ transcribed = "none"
    /\ priorHistory = <<>>
    /\ priorEvent = NoEvent
    /\ llm_request = NoRequest
    /\ gui_pc = "idle"
    /\ audio_io = NewAudioIO
    /\ loops = [t \in LoopIds |-> NewLoop]
    /\ toggler = NewToggler
    /\ vad_thread = 0
    /\ overlap = 0
    /\ warmed_up = FALSE
    /\ pendingAtClear = NoEvent
    /\ device = WorkingDevice
    /\ gui_response = <<>>
    /\ gui_sentences = <<>>
    /\ gui_spoken = <<>>
    /\ lastPlay = NoStep
    /\ lastCut = <<>>
    /\ abortStep = NoStep
    /\ earlyFlag = FALSE

SpecListen == InitListen /\ [][NextListen]_vars

InitPtt ==
    \* IrisLocal.__init__, lines 566-590
    /\ vad_monitor_active = FALSE
    /\ interrupt_requested = FALSE
    /\ vad_monitor_thread = 0
    /\ is_speaking = FALSE
    /\ monitors = [m \in MonIds |-> NewMonitor]
    /\ flagSetter = 0
    /\ turn = 0
    /\ turnPc = "idle"
    /\ observed = FALSE
    /\ blamed = 0
    \* at rest
    /\ vad_active = FALSE
    /\ vad_thread_alive = FALSE
    /\ vad_is_speaking = FALSE
    /\ vad_audio_buffer = <<>>
    /\ silence_samples = 0
    /\ pos = 0
    /\ emitted = <<>>
    /\ speechTotal = 0
    /\ firstSpeech = 0
    /\ lastSpeech = 0
    /\ shape = "lead"
    /\ prevSpeech = FALSE
    /\ runs = 0
    /\ silenceRun = 0
    /\ mode = "cli"
    /\ processing_lock = 0
    /\ is_processing = FALSE
    /\ calls = [c \in CallIds |-> NewCall]
    /\ ran = [c \in CallIds |-> {}]
    /\ arrivedBusy = {}
    /\ pipeline_status = IdleStatus
    /\ cycle = 0
    /\ pv_pc = "idle"
    /\ pv_error = FALSE
    /\ buffer = <<>>
    /\ full_response = <<>>
    /\ spoken_text = <<>>
    /\ was_interrupted = FALSE
    /\ sentence = <<>>
    /\ audio_len = 0
    /\ elapsed = 0
    /\ nTokens = 0
    /\ last_interruption = NoEvent
    /\ conversation_history = <<>>
    /\ consumed = <<>>
    /\ synth = <<>>
    /\ plays = [started |-> 0, completed |-> 0]
    /\ flagAtLastPlayEnd = FALSE
    /\ finalStep = NoStep
    /\ priorStats = [context_used |-> 0, total |-> 0]
    /\ total_tokens_session = 0
    /\ context_used = 0
    /\ flagSeen = NoStep
    /\ foldedEvent = NoEvent
    /\ cycle_status = "none"
    /\ llm_outcome = "none"
    /\ transcribed = "none"
    /\ priorHistory = <<>>
    /\ priorEvent = NoEvent
    /\ llm_request = NoRequest
    /\ gui_pc = "idle"
    /\ audio_io = NewAudioIO
    /\ loops = [t \in LoopIds |-> NewLoop]
    /\ toggler = NewToggler
    /\ vad_thread = 0
    /\ overlap = 0
    /\ warmed_up = FALSE
    /\ pendingAtClear = NoEvent
    /\ device \in Devices
    /\ gui_response = <<>>
    /\ gui_sentences = <<>>
    /\ gui_spoken = <<>>
    /\ lastPlay = NoStep
    /\ lastCut = <<>>
    /\ abortStep = NoStep
    /\ earlyFlag = FALSE

\* the capture thread, once started, keeps running: each of its steps is
\* taken if it stays enabled
SpecPtt ==
    /\ InitPtt
    /\ [][NextPtt]_vars
    /\ WF_vars(RecordBegin)
    /\ WF_vars(FfmpegReturn)
    /\ WF_vars(SdReturn)

InitLife ==
    \* IrisLocal.__init__, lines 566-590
    /\ vad_monitor_active = FALSE
    /\ interrupt_requested = FALSE
    /\ vad_monitor_thread = 0
    /\ is_speaking = FALSE
    /\ monitors = [m \in MonIds |-> NewMonitor]
    /\ flagSetter = 0
    /\ turn = 0
    /\ turnPc = "idle"
    /\ observed = FALSE
    /\ blamed = 0
    \* at rest
    /\ vad_active = FALSE
    /\ vad_thread_alive = FALSE
    /\ vad_is_speaking = FALSE
    /\ vad_audio_buffer = <<>>
    /\ silence_samples = 0
    /\ pos = 0
    /\ emitted = <<>>
    /\ speechTotal = 0
    /\ firstSpeech = 0
    /\ lastSpeech = 0
    /\ shape = "lead"
    /\ prevSpeech = FALSE
    /\ runs = 0
    /\ silenceRun = 0
    /\ mode \in {"cli", "gui"}
    /\ processing_lock = 0
    /\ is_processing = FALSE
    /\ calls = [c \in CallIds |-> NewCall]
    /\ ran = [c \in CallIds |-> {}]
    /\ arrivedBusy = {}
    /\ pipeline_status = IdleStatus
    /\ cycle = 0
    /\ pv_pc = "idle"
    /\ pv_error = FALSE
    /\ buffer = <<>>
    /\ full_response = <<>>
    /\ spoken_text = <<>>
    /\ was_interrupted = FALSE
    /\ sentence = <<>>
    /\ audio_len = 0
    /\ elapsed = 0
    /\ nTokens = 0
    /\ last_interruption = NoEvent
    /\ conversation_history = <<>>
    /\ consumed = <<>>
    /\ synth = <<>>
    /\ plays = [started |-> 0, completed |-> 0]
    /\ flagAtLastPlayEnd = FALSE
    /\ finalStep = NoStep
    /\ priorStats = [context_used |-> 0, total |-> 0]
    /\ total_tokens_session = 0
    /\ context_used = 0
    /\ flagSeen = NoStep
    /\ foldedEvent = NoEvent
    /\ cycle_status = "none"
    /\ llm_outcome = "none"
    /\ transcribed = "none"
    /\ priorHistory = <<>>
    /\ priorEvent = NoEvent
    /\ llm_request = NoRequest
    /\ gui_pc = "idle"
    /\ audio_io = NewAudioIO
    /\ loops = [t \in LoopIds |-> NewLoop]
    /\ toggler = NewToggler
    /\ vad_thread = 0
    /\ overlap = 0
    /\ warmed_up = FALSE
    /\ pendingAtClear = NoEvent
    /\ device = WorkingDevice
    /\ gui_response = <<>>
    /\ gui_sentences = <<>>
    /\ gui_spoken = <<>>
    /\ lastPlay = NoStep
    /\ lastCut = <<>>
    /\ abortStep = NoStep
    /\ earlyFlag = FALSE

SpecLife == InitLife /\ [][NextLife]_vars

====
